---- MODULE Spec2Model ----
(***************************************************************************)
(* Model of the schema-anchored JSON parser of the tech-news-aggregator    *)
(* (src/src/lib/schema-json-parser.ts).                                    *)
(*                                                                         *)
(* A text is a sequence of characters; a character is a one-character      *)
(* string.  Offsets are 0-based, as in the source: the character at        *)
(* offset j of s is s[j + 1].  Characters that TLA+ cannot write as a      *)
(* literal are named "U+<code>" (for instance "U+0" for NUL).              *)
(***************************************************************************)
EXTENDS Integers, Sequences, FiniteSets, TLC

VARIABLES
    input,    \* the generated input: schema, raw values, layout (never changes)
    json,     \* Parser.json: the text being parsed
    fields,   \* Parser.fields: the schema
    pos,      \* Parser.pos: the cursor
    pc,       \* where the parse is
    items,    \* parse(): the records pushed so far
    item,     \* parseObject(): the record being built
    fi,       \* parseObject(): the loop index i (1-based here)
    err,      \* the ParseError thrown, if any
    ends,     \* the cursor right after each record's closing brace was passed
    pass,     \* 1: parsing the generated text; 2: parsing the re-serialized result
    first,    \* the result of pass 1, kept for pass 2
    calls,    \* the Parser objects of the calls made side by side
    run,      \* the pipeline runner: its position and its PipelineResult
    client,   \* ClaudeClient.sendMessage: its locals and what it did
    orch,     \* scrapeAllSources: the four scrapers and what it gave
    digest    \* trimToFitSize: the digest it works on

\* What the parse of one text leaves alone.
aux == <<calls, run, client, orch, digest>>

vars == <<input, json, fields, pos, pc, items, item, fi, err, ends, pass, first, aux>>

----------------------------------------------------------------------------
(* Characters *)

QUOTE == "\""
BSLASH == "\\"
\* What json[j] gives past the end of the text (undefined): equal to no character.
EOF == "EOF"
NUL == "U+0"
BACKSPACE == "U+8"

Min(a, b) == IF a < b THEN a ELSE b

\* /\s/ of the source: the JSON whitespace characters and the further ones the
\* regular expression class matches (form feed stands for those).
IsWs(c) == c \in {" ", "\t", "\n", "\r", "\f"}

\* The characters '.' of a regular expression does not match.
IsLineTerminator(c) == c \in {"\n", "\r"}

HexDigits == <<"0", "1", "2", "3", "4", "5", "6", "7", "8", "9",
               "a", "b", "c", "d", "e", "f">>
UpperHex == <<"A", "B", "C", "D", "E", "F">>

IsHex(c) == (\E k \in 1..16 : HexDigits[k] = c) \/ (\E k \in 1..6 : UpperHex[k] = c)

HexVal(c) ==
    IF \E k \in 1..16 : HexDigits[k] = c
    THEN (CHOOSE k \in 1..16 : HexDigits[k] = c) - 1
    ELSE (CHOOSE k \in 1..6 : UpperHex[k] = c) + 9

\* String.fromCharCode: the characters the model writes as literals, by code.
FromCharCode(n) ==
    CASE n = 34 -> QUOTE
      [] n = 92 -> BSLASH
      [] n = 47 -> "/"
      [] n = 32 -> " "
      [] n = 9 -> "\t"
      [] n = 10 -> "\n"
      [] n = 13 -> "\r"
      [] n = 12 -> "\f"
      [] n = 44 -> ","
      [] n = 58 -> ":"
      [] n = 91 -> "["
      [] n = 93 -> "]"
      [] n = 123 -> "{"
      [] n = 125 -> "}"
      [] n \in 48..57 -> HexDigits[n - 47]
      [] n \in 65..70 -> UpperHex[n - 64]
      [] n \in 97..102 -> HexDigits[n - 86]
      [] OTHER -> "U+" \o ToString(n)

----------------------------------------------------------------------------
(* Text helpers: String.prototype.slice, indexOf, the [] operator *)

CharAt(s, j) == IF j >= 0 /\ j < Len(s) THEN s[j + 1] ELSE EOF

Slice(s, a, b) == SubSeq(s, a + 1, Min(b, Len(s)))

\* The loops of the source that step the cursor one character at a time are
\* computed as "the first offset from p on at which the loop stops".
IndexOf(s, ch, from) ==
    IF \E q \in from..(Len(s) - 1) : s[q + 1] = ch
    THEN CHOOSE q \in from..(Len(s) - 1) :
            s[q + 1] = ch /\ \A k \in from..(q - 1) : s[k + 1] # ch
    ELSE -1

\* What an operation gives: a value and the cursor after it, or the ParseError.
Ok(v, p) == [ok |-> TRUE, val |-> v, pos |-> p, msg |-> "", at |-> p]
Err(m, p) == [ok |-> FALSE, val |-> <<>>, pos |-> p, msg |-> m, at |-> p]

----------------------------------------------------------------------------
(* Cursor helpers *)

SkipWsFrom(s, j) ==
    IF j >= Len(s) THEN j
    ELSE CHOOSE q \in j..Len(s) :
            /\ q = Len(s) \/ ~IsWs(s[q + 1])
            /\ \A k \in j..(q - 1) : IsWs(s[k + 1])

SkipWs(s, p) == SkipWsFrom(s, p)

AtEnd(s, p) == p >= Len(s)

Peek(s, p) == CharAt(s, p)

Advance(p) == p + 1

SkipToPos(s, p, ch) ==
    IF p >= Len(s) THEN p
    ELSE CHOOSE q \in p..Len(s) :
            /\ q = Len(s) \/ s[q + 1] = ch
            /\ \A k \in p..(q - 1) : s[k + 1] # ch

\* Mutant: the error is placed one past where the scan stopped.
SkipToErrPastEnd(s, p, ch) ==
    LET q == SkipToPos(s, p, ch)
    IN  IF AtEnd(s, q) THEN Err("Expected char not found", q + 1) ELSE Ok(<<>>, q)

SkipTo(s, p, ch) ==
    LET q == SkipToPos(s, p, ch)
    IN  IF AtEnd(s, q) THEN Err("Expected char not found", q) ELSE Ok(<<>>, q)

Expect(s, p, ch) ==
    IF CharAt(s, p) # ch THEN Err("Expected char", p) ELSE Ok(<<>>, p)

TryConsume(s, p, ch) == IF CharAt(s, p) = ch THEN p + 1 ELSE p

----------------------------------------------------------------------------
(* The escape codec *)

\* Mutant: the control-character escapes are passed through as letters.
EscapeCharLettersOnly(c) ==
    CASE c = QUOTE -> QUOTE
      [] c = BSLASH -> BSLASH
      [] c = "u" -> NUL
      [] OTHER -> c

EscapeChar(c) ==
    CASE c = QUOTE -> QUOTE
      [] c = BSLASH -> BSLASH
      [] c = "/" -> "/"
      [] c = "n" -> "\n"
      [] c = "r" -> "\r"
      [] c = "t" -> "\t"
      [] c = "b" -> BACKSPACE
      [] c = "f" -> "\f"
      \* seq is "u" alone: parseInt("", 16) is NaN and fromCharCode(NaN) is NUL
      [] c = "u" -> NUL
      [] OTHER -> c

IsUnicodeEscape(raw, i) ==
    /\ CharAt(raw, i + 1) = "u"
    /\ \A k \in 2..5 : IsHex(CharAt(raw, i + k))

UnicodeChar(raw, i) ==
    FromCharCode(((HexVal(raw[i + 3]) * 16 + HexVal(raw[i + 4])) * 16
                    + HexVal(raw[i + 5])) * 16 + HexVal(raw[i + 6]))

\* String.prototype.replace with the pattern \\(u[0-9a-fA-F]{4}|.) and the g flag:
\* the text up to the next backslash is kept, the match is replaced, and the
\* search goes on after it; a backslash the pattern does not match stays.
RECURSIVE UnescapeFrom(_, _)
UnescapeFrom(raw, i) ==
    LET b == SkipToPos(raw, i, BSLASH)
    IN  IF b >= Len(raw) THEN Slice(raw, i, Len(raw))
        ELSE Slice(raw, i, b)
             \o (IF IsUnicodeEscape(raw, b)
                 THEN <<UnicodeChar(raw, b)>> \o UnescapeFrom(raw, b + 6)
                 ELSE IF b + 1 < Len(raw) /\ ~IsLineTerminator(raw[b + 2])
                 THEN <<EscapeChar(raw[b + 2])>> \o UnescapeFrom(raw, b + 2)
                 ELSE <<BSLASH>> \o UnescapeFrom(raw, b + 1))

Unescape(raw) == UnescapeFrom(raw, 0)

----------------------------------------------------------------------------
(* The readers *)

\* nextField: [some |-> TRUE, name |-> <the name>] or NoField (null).
NoField == [some |-> FALSE, name |-> <<>>]
Field(n) == [some |-> TRUE, name |-> n]

\* Mutant: no whitespace is allowed between the comma and the key.
ClosesBeforeFieldTight(s, p, name) ==
    LET j1 == SkipWsFrom(s, p + 1)
        j2 == j1 + 1
        j3 == j2 + 1 + Len(name)
    IN  /\ CharAt(s, j1) = ","
        /\ CharAt(s, j2) = QUOTE
        /\ Slice(s, j2 + 1, j3) = name
        /\ CharAt(s, j3) = QUOTE
        /\ CharAt(s, SkipWsFrom(s, j3 + 1)) = ":"

\* The two branches of isClosingQuote.
ClosesBeforeField(s, p, name) ==
    LET j1 == SkipWsFrom(s, p + 1)
        j2 == SkipWsFrom(s, j1 + 1)
        j3 == j2 + 1 + Len(name)
    IN  /\ CharAt(s, j1) = ","
        /\ CharAt(s, j2) = QUOTE
        /\ Slice(s, j2 + 1, j3) = name
        /\ CharAt(s, j3) = QUOTE
        /\ CharAt(s, SkipWsFrom(s, j3 + 1)) = ":"

\* Mutant: a closing bracket after the quote does not end the value.
ClosesRecordNoBracket(s, p) ==
    LET j1 == SkipWsFrom(s, p + 1)
    IN  \/ CharAt(s, j1) = "}"
        \/ /\ CharAt(s, j1) = ","
           /\ CharAt(s, SkipWsFrom(s, j1 + 1)) = "}"
        \/ /\ CharAt(s, j1) # ","
           /\ j1 >= Len(s)

ClosesRecord(s, p) ==
    LET j1 == SkipWsFrom(s, p + 1)
    IN  \/ CharAt(s, j1) = "}"
        \/ /\ CharAt(s, j1) = ","
           /\ CharAt(s, SkipWsFrom(s, j1 + 1)) = "}"
        \/ /\ CharAt(s, j1) # ","
           /\ \/ j1 >= Len(s)
              \/ CharAt(s, j1) = "]"

\* Mutant: the name of the key after the comma is not compared.
IsClosingQuoteAnyKey(s, p, nextField) ==
    IF nextField.some
    THEN LET j1 == SkipWsFrom(s, p + 1)
         IN  CharAt(s, j1) = "," /\ CharAt(s, SkipWsFrom(s, j1 + 1)) = QUOTE
    ELSE ClosesRecord(s, p)

\* Mutant: for the last field a comma is enough, the brace after it is not
\* looked for.
IsClosingQuoteCommaEnough(s, p, nextField) ==
    IF nextField.some THEN ClosesBeforeField(s, p, nextField.name)
    ELSE ClosesRecord(s, p) \/ CharAt(s, SkipWsFrom(s, p + 1)) = ","

\* Mutant: for the last field no trailing comma is tolerated.
IsClosingQuoteNoTrailingComma(s, p, nextField) ==
    IF nextField.some THEN ClosesBeforeField(s, p, nextField.name)
    ELSE LET j1 == SkipWsFrom(s, p + 1)
         IN  CharAt(s, j1) = "}" \/ j1 >= Len(s) \/ CharAt(s, j1) = "]"

IsClosingQuote(s, p, nextField) ==
    IF nextField.some THEN ClosesBeforeField(s, p, nextField.name)
    ELSE ClosesRecord(s, p)

\* Mutant: a lookahead that answers true leaves the cursor where it stopped
\* skipping whitespace after the quote.
CallIsClosingQuoteCommits(s, p, nextField) ==
    [answer |-> IsClosingQuote(s, p, nextField),
     pos |-> IF IsClosingQuote(s, p, nextField) THEN SkipWsFrom(s, p + 1) ELSE p]

\* The call this.isClosingQuote(nextField) with the cursor at p: what it
\* answers, and this.pos after it (the lookahead works on the local j).
CallIsClosingQuote(s, p, nextField) ==
    [answer |-> IsClosingQuote(s, p, nextField), pos |-> p]

\* The string readers' this.pos++ over the characters that are neither a
\* backslash nor a quote.
NextSpecial(s, p) ==
    IF p >= Len(s) THEN p
    ELSE CHOOSE q \in p..Len(s) :
            /\ q = Len(s) \/ s[q + 1] \in {BSLASH, QUOTE}
            /\ \A k \in p..(q - 1) : s[k + 1] \notin {BSLASH, QUOTE}

\* Mutant: a backslash consumes itself only, the character after it is
\* looked at like any other.
RECURSIVE AnchoredLoopOneChar(_, _, _, _, _, _)
AnchoredLoopOneChar(s, nextField, start, p, segStart, parts) ==
    LET q == NextSpecial(s, p)
    IN  IF AtEnd(s, q) THEN Err("Unterminated string", start)
        ELSE IF s[q + 1] = BSLASH
        THEN AnchoredLoopOneChar(s, nextField, start, q + 1, segStart, parts)
        ELSE LET c == CallIsClosingQuote(s, q, nextField)
             IN  IF c.answer
                 THEN Ok(Unescape(parts \o Slice(s, segStart, c.pos)), Advance(c.pos))
                 ELSE AnchoredLoopOneChar(s, nextField, start, c.pos + 1, c.pos + 1,
                           parts \o Slice(s, segStart, c.pos) \o <<BSLASH, QUOTE>>)

\* Mutant: the cursor is left at the closing quote, not after it.
RECURSIVE AnchoredLoopAtQuote(_, _, _, _, _, _)
AnchoredLoopAtQuote(s, nextField, start, p, segStart, parts) ==
    LET q == NextSpecial(s, p)
    IN  IF AtEnd(s, q) THEN Err("Unterminated string", start)
        ELSE IF s[q + 1] = BSLASH
        THEN AnchoredLoopAtQuote(s, nextField, start, q + 2, segStart, parts)
        ELSE LET c == CallIsClosingQuote(s, q, nextField)
             IN  IF c.answer
                 THEN Ok(Unescape(parts \o Slice(s, segStart, c.pos)), c.pos)
                 ELSE AnchoredLoopAtQuote(s, nextField, start, c.pos + 1, c.pos + 1,
                           parts \o Slice(s, segStart, c.pos) \o <<BSLASH, QUOTE>>)

RECURSIVE AnchoredLoop(_, _, _, _, _, _)
AnchoredLoop(s, nextField, start, p, segStart, parts) ==
    LET q == NextSpecial(s, p)
    IN  IF AtEnd(s, q) THEN Err("Unterminated string", start)
        ELSE IF s[q + 1] = BSLASH
        THEN AnchoredLoop(s, nextField, start, q + 2, segStart, parts)
        ELSE LET c == CallIsClosingQuote(s, q, nextField)
             IN  IF c.answer
                 THEN Ok(Unescape(parts \o Slice(s, segStart, c.pos)), Advance(c.pos))
                 ELSE AnchoredLoop(s, nextField, start, c.pos + 1, c.pos + 1,
                           parts \o Slice(s, segStart, c.pos) \o <<BSLASH, QUOTE>>)

\* Mutant: the offset kept for the error is that of the opening quote.
ReadAnchoredStringFromQuote(s, p, nextField) ==
    LET e == Expect(s, p, QUOTE)
    IN  IF ~e.ok THEN e
        ELSE AnchoredLoop(s, nextField, p, Advance(p), Advance(p), <<>>)

ReadAnchoredString(s, p, nextField) ==
    LET e == Expect(s, p, QUOTE)
    IN  IF ~e.ok THEN e
        ELSE AnchoredLoop(s, nextField, Advance(p), Advance(p), Advance(p), <<>>)

\* Mutant: an element ends only at a quote that a comma or the closing
\* bracket follows.
RECURSIVE SimpleLoopAnchored(_, _, _)
SimpleLoopAnchored(s, start, p) ==
    LET q == NextSpecial(s, p)
    IN  IF AtEnd(s, q) THEN Err("Unterminated string", start)
        ELSE IF s[q + 1] = BSLASH THEN SimpleLoopAnchored(s, start, q + 2)
        ELSE IF CharAt(s, SkipWsFrom(s, q + 1)) \in {",", "]"}
        THEN Ok(Unescape(Slice(s, start, q)), Advance(q))
        ELSE SimpleLoopAnchored(s, start, q + 1)

RECURSIVE SimpleLoop(_, _, _)
SimpleLoop(s, start, p) ==
    LET q == NextSpecial(s, p)
    IN  IF AtEnd(s, q) THEN Err("Unterminated string", start)
        ELSE IF s[q + 1] = BSLASH THEN SimpleLoop(s, start, q + 2)
        ELSE Ok(Unescape(Slice(s, start, q)), Advance(q))

ReadSimpleString(s, p) ==
    LET e == Expect(s, p, QUOTE)
    IN  IF ~e.ok THEN e ELSE SimpleLoop(s, Advance(p), Advance(p))

RECURSIVE ArrayLoop(_, _, _)
ArrayLoop(s, p, values) ==
    IF ~AtEnd(s, p) /\ Peek(s, p) # "]"
    THEN LET r == ReadSimpleString(s, p)
         IN  IF ~r.ok THEN r
             ELSE ArrayLoop(s, SkipWs(s, TryConsume(s, SkipWs(s, r.pos), ",")),
                            Append(values, r.val))
    ELSE LET e == Expect(s, p, "]")
         IN  IF ~e.ok THEN e ELSE Ok(values, Advance(p))

\* Mutant: the whitespace after the opening bracket is not skipped.
ReadStringArrayNoSkipWs(s, p) ==
    LET e == Expect(s, p, "[")
    IN  IF ~e.ok THEN e ELSE ArrayLoop(s, Advance(p), <<>>)

ReadStringArray(s, p) ==
    LET e == Expect(s, p, "[")
    IN  IF ~e.ok THEN e ELSE ArrayLoop(s, SkipWs(s, Advance(p)), <<>>)

ExpectKey(s, p, name) ==
    LET q == SkipTo(s, p, QUOTE)
    IN  IF ~q.ok THEN q
        ELSE LET keyStart == Advance(q.pos)
                 keyEnd == IndexOf(s, QUOTE, keyStart)
             IN  IF keyEnd = -1 THEN Err("Unterminated key", keyStart)
                 ELSE IF Slice(s, keyStart, keyEnd) # name
                 THEN Err("Expected key", keyStart)
                 ELSE LET c == SkipWs(s, keyEnd + 1)
                          e == Expect(s, c, ":")
                      IN  IF ~e.ok THEN e ELSE Ok(<<>>, SkipWs(s, Advance(c)))

----------------------------------------------------------------------------
(* Schemas *)

Title == <<"t", "i", "t", "l", "e">>
Url == <<"u", "r", "l">>
Tags == <<"t", "a", "g", "s">>
Items == <<"i", "t", "e", "m", "s">>
\* A key no schema declares.
Link == <<"l", "i", "n", "k">>

FieldDef(n, t) == [name |-> n, type |-> t]

TitleUrl == <<FieldDef(Title, "string"), FieldDef(Url, "string")>>
TitleTags == <<FieldDef(Title, "string"), FieldDef(Tags, "string[]")>>
TagsTitle == <<FieldDef(Tags, "string[]"), FieldDef(Title, "string")>>
TitleTagsUrl == <<FieldDef(Title, "string"), FieldDef(Tags, "string[]"),
                  FieldDef(Url, "string")>>
TitleOnly == <<FieldDef(Title, "string")>>
EmptySchema == <<>>
\* A schema that declares one name twice.
TitleTitle == <<FieldDef(Title, "string"), FieldDef(Title, "string")>>

RecordSchemas == {TitleUrl, TitleTags, TagsTitle, TitleTagsUrl}
AllSchemas == RecordSchemas \cup {TitleOnly, EmptySchema}

----------------------------------------------------------------------------
(* Bounds of the generated inputs *)

\* Longest raw value drawn exhaustively from Alphabet.
MaxLen == 2
\* Longest run of whitespace looked for between two tokens of a text.
MaxWs == 3
\* Most records in one text.
MaxRecs == 2

Alphabet == {"a", QUOTE, BSLASH, ",", "}", "]"}

RECURSIVE SeqsUpTo(_, _)
SeqsUpTo(S, n) ==
    IF n = 0 THEN {<<>>}
    ELSE LET shorter == SeqsUpTo(S, n - 1)
         IN  shorter \cup {Append(t, c) : t \in {u \in shorter : Len(u) = n - 1}, c \in S}

\* Longer raw values, chosen for what they hold.
SayHello == <<"S", "a", "y", " ", QUOTE, "h", "i", QUOTE, " ", "n", "o", "w">>
AnchorInside == <<"x", QUOTE, ",", " ", QUOTE>> \o Url \o <<QUOTE, ":", " ", QUOTE, "y">>
BraceInside == <<"a", QUOTE, " ", "}", "b">>
CommaBraceInside == <<"a", QUOTE, ",", " ", "}", "b">>
BracketInside == <<"a", " ", "[", QUOTE, "b", QUOTE, "]", " ", "c">>
EscapedQuote == <<"a", BSLASH, QUOTE, "b">>
EscapedBackslashThenQuote == <<"a", BSLASH, BSLASH, QUOTE, "b">>
EscapedNewline == <<"a", BSLASH, "n", "b">>
UnicodeEscape == <<BSLASH, "u", "0", "0", "4", "1", "b">>
KeyLike == <<QUOTE>> \o Url \o <<QUOTE, ":">>
SpacedComma == <<"a", QUOTE, " ", ",", " ">>
SpacedQuote == <<QUOTE, " ">>
\* A quote, a comma and a quote: what stands between two list elements.
SplitsInTwo == <<"a", QUOTE, ",", QUOTE, "b">>
\* A backslash and u with no four hexadecimal digits after them.
ShortUnicode == <<"a", BSLASH, "u", "x">>
\* A backslash and a line feed.
EscapedLineFeed == <<"a", BSLASH, "\n", "b">>

Crafted == {SayHello, AnchorInside, BraceInside, CommaBraceInside, BracketInside,
            EscapedQuote, EscapedBackslashThenQuote, EscapedNewline, UnicodeEscape,
            KeyLike, SpacedComma, SpacedQuote, SplitsInTwo, ShortUnicode,
            EscapedLineFeed}

RawValues == SeqsUpTo(Alphabet, MaxLen) \cup Crafted

WsRuns == {<<>>, <<" ">>, <<"\n", "\t">>}

Letters == <<"p", "q", "r", "s", "v", "w", "x", "y", "z">>

\* The raw value of field f of record r when nothing else is asked of it.  A
\* value is a list of raw strings; the value of a string field is a list of one.
DefaultChar(r, f) == Letters[(((r - 1) * 3 + (f - 1)) % Len(Letters)) + 1]
DefaultValue(schema, r, f) ==
    IF schema[f].type = "string" THEN <<<<DefaultChar(r, f)>>>>
    ELSE <<<<DefaultChar(r, f)>>, <<"k">>>>

DefaultRecs(schema, n) ==
    [r \in 1..n |-> [f \in 1..Len(schema) |-> DefaultValue(schema, r, f)]]

NoDefect == [kind |-> "none", rec |-> 0, fld |-> 0, at |-> 0]
Defect(k, r, f) == [kind |-> k, rec |-> r, fld |-> f, at |-> 0]
\* The text stops after its first n characters.
Truncation(n) == [kind |-> "truncated", rec |-> 0, fld |-> 0, at |-> n]

Scenario(family, schema, recs, w, tc, d) ==
    [family |-> family, schema |-> schema, recs |-> recs, ws |-> w,
     comma |-> tc, defect |-> d, focus |-> <<0, 0>>]

\* Record r, field f holds v (a list of raw strings).
WithValue(sc, r, f, v) ==
    [sc EXCEPT !.recs[r][f] = v, !.focus = <<r, f>>]

----------------------------------------------------------------------------
(* The text of a scenario *)

Quoted(t) == <<QUOTE>> \o t \o <<QUOTE>>

RECURSIVE JoinRange(_, _, _, _)
\* parts[lo], ..., parts[hi] with sep between them
JoinRange(parts, sep, lo, hi) ==
    IF lo > hi THEN <<>>
    ELSE IF lo = hi THEN parts[lo]
    ELSE LET mid == (lo + hi) \div 2
         IN  JoinRange(parts, sep, lo, mid) \o sep \o JoinRange(parts, sep, mid + 1, hi)

Join(parts, sep) == JoinRange(parts, sep, 1, Len(parts))

ListText(elems, w, kind) ==
    (IF kind = "listNoOpen" THEN <<>> ELSE <<"[">>) \o w
    \o (IF kind = "listBadElem" THEN <<"1">>
        ELSE Join([k \in 1..Len(elems) |-> Quoted(elems[k])], <<",">> \o w))
    \o w \o (IF kind = "listNoClose" THEN <<>> ELSE <<"]">>)

FieldText(sc, r, f) ==
    LET here == sc.defect.rec = r /\ sc.defect.fld = f
        kind == IF here THEN sc.defect.kind ELSE "none"
        key == IF kind = "wrongKey" THEN Link ELSE sc.schema[f].name
    IN  Quoted(key) \o sc.ws \o <<":">> \o sc.ws
        \o (IF sc.schema[f].type = "string" THEN Quoted(sc.recs[r][f][1])
            ELSE ListText(sc.recs[r][f], sc.ws, kind))

\* The fields record r carries: all of them, but the one a missingKey defect drops.
FieldsOf(sc, r) ==
    SelectSeq([f \in 1..Len(sc.schema) |-> f],
              LAMBDA f : ~(sc.defect.kind = "missingKey" /\ sc.defect.rec = r
                           /\ sc.defect.fld = f))

\* Record r up to its last value (and the tolerated trailing comma).
RecordBody(sc, r) ==
    LET fs == FieldsOf(sc, r)
    IN  <<"{">> \o sc.ws
        \o Join([k \in 1..Len(fs) |-> FieldText(sc, r, fs[k])], <<",">> \o sc.ws)
        \o (IF sc.comma THEN sc.ws \o <<",">> ELSE <<>>)

RecordText(sc, r) ==
    RecordBody(sc, r) \o sc.ws
    \o (IF sc.defect.kind = "noBrace" /\ sc.defect.rec = r THEN <<>> ELSE <<"}">>)

EnvelopeOpen(sc) ==
    <<"{">> \o sc.ws \o Quoted(Items) \o <<":">> \o sc.ws \o <<"[">> \o sc.ws

\* The text through record n (its closing brace included).
TextThrough(sc, n) ==
    EnvelopeOpen(sc)
    \o Join([r \in 1..n |-> RecordText(sc, r)], <<",">> \o sc.ws)

FullText(sc) ==
    IF sc.defect.kind = "cut"
    THEN EnvelopeOpen(sc)
         \o Join([r \in 1..(Len(sc.recs) - 1) |-> RecordText(sc, r)] , <<",">> \o sc.ws)
         \o (IF Len(sc.recs) > 1 THEN <<",">> \o sc.ws ELSE <<>>)
         \o RecordBody(sc, Len(sc.recs))
    ELSE TextThrough(sc, Len(sc.recs)) \o sc.ws \o <<"]">> \o sc.ws \o <<"}">>

Text(sc) ==
    IF sc.defect.kind = "truncated" THEN SubSeq(FullText(sc), 1, sc.defect.at)
    ELSE FullText(sc)

----------------------------------------------------------------------------
(* The generated inputs *)

StringFields(schema) == {f \in 1..Len(schema) : schema[f].type = "string"}
ListFields(schema) == {f \in 1..Len(schema) : schema[f].type = "string[]"}

\* One value of one record is drawn from RawValues; a list holds it as its
\* first element.
ValueSchemas == {TitleUrl, TitleTagsUrl}

ValueLayouts == {<<v, <<>>>> : v \in RawValues} \cup {<<v, <<" ">>>> : v \in Crafted}

ValueInputs ==
    {WithValue(Scenario("value", schema, DefaultRecs(schema, MaxRecs), vw[2],
                        FALSE, NoDefect),
               rf[1], rf[2],
               IF schema[rf[2]].type = "string" THEN <<vw[1]>> ELSE <<vw[1], <<"k">>>>)
        : schema \in ValueSchemas, vw \in ValueLayouts,
          rf \in (1..MaxRecs) \X (1..2)}
    \cup {WithValue(Scenario("value", TitleTagsUrl, DefaultRecs(TitleTagsUrl, MaxRecs),
                             vw[2], FALSE, NoDefect), r, 3, <<vw[1]>>)
             : vw \in ValueLayouts, r \in 1..MaxRecs}
    \cup {WithValue(Scenario("value", TitleTags, DefaultRecs(TitleTags, MaxRecs),
                             vw[2], FALSE, NoDefect), r, 2, <<vw[1], <<"k">>>>)
             : vw \in ValueLayouts, r \in 1..MaxRecs}

\* Plain values, in every layout: whitespace between the tokens, trailing commas.
LayoutInputs ==
    {Scenario("layout", schema, DefaultRecs(schema, n), w, tc, NoDefect)
        : schema \in AllSchemas, n \in 1..MaxRecs, w \in WsRuns, tc \in BOOLEAN}

\* {"items": []}
EmptyInputs ==
    {Scenario("empty", schema, <<>>, w, FALSE, NoDefect)
        : schema \in AllSchemas, w \in WsRuns \cup {<<"\f">>}}

\* "tags": []
EmptyListInputs ==
    UNION {{WithValue(Scenario("emptyList", schema, DefaultRecs(schema, n), w, tc,
                               NoDefect), r, f, <<>>)
               : n \in 1..MaxRecs, r \in 1..MaxRecs, f \in ListFields(schema),
                 w \in WsRuns, tc \in BOOLEAN}
           : schema \in RecordSchemas} 

DefectsOf(schema, n) ==
    {Defect(k, r, f) : k \in {"missingKey", "wrongKey"}, r \in 1..n,
                       f \in 1..Len(schema)}
    \cup {Defect(k, r, f) : k \in {"listNoOpen", "listBadElem", "listNoClose"},
                            r \in 1..n, f \in ListFields(schema)}
    \cup {Defect("noBrace", r, 0) : r \in 1..n}
    \cup {Defect("cut", n, 0)}

\* One record of the text is malformed.
DefectInputs ==
    UNION {{Scenario("defect", schema, DefaultRecs(schema, n), w, tc, d)
               : d \in DefectsOf(schema, n), w \in {<<>>, <<" ">>}, tc \in BOOLEAN}
           : schema \in RecordSchemas, n \in 1..MaxRecs}

\* The records of a schema with a repeated name.
DuplicateInputs ==
    {Scenario("duplicate", TitleTitle, DefaultRecs(TitleTitle, n), w, tc, NoDefect)
        : n \in 1..MaxRecs, w \in WsRuns, tc \in BOOLEAN}

\* Texts whose values hold escapes and bare quotes, to be cut short.
TruncationBases ==
    {WithValue(Scenario("truncated", TitleTagsUrl, DefaultRecs(TitleTagsUrl, 1),
                        <<" ">>, FALSE, NoDefect), 1, 1, <<EscapedQuote>>),
     WithValue(Scenario("truncated", TagsTitle, DefaultRecs(TagsTitle, 1),
                        <<>>, TRUE, NoDefect), 1, 1, <<EscapedNewline, EscapedQuote>>),
     WithValue(Scenario("truncated", TitleUrl, DefaultRecs(TitleUrl, MaxRecs),
                        <<>>, FALSE, NoDefect), MaxRecs, 2, <<SayHello>>)}

\* Every proper prefix of those texts.
TruncatedInputs ==
    UNION {{[sc EXCEPT !.defect = Truncation(n)] : n \in 0..(Len(FullText(sc)) - 1)}
           : sc \in TruncationBases}

Inputs ==
    ValueInputs \cup LayoutInputs \cup EmptyInputs
    \cup {sc \in EmptyListInputs : sc.focus[1] <= Len(sc.recs)} \cup DefectInputs
    \cup DuplicateInputs \cup TruncatedInputs

----------------------------------------------------------------------------
(* JSON.stringify of the result: what re-serializing with proper escaping gives *)

Hex2(n) == <<HexDigits[(n \div 16) + 1], HexDigits[(n % 16) + 1]>>

StringifyChar(c) ==
    CASE c = QUOTE -> <<BSLASH, QUOTE>>
      [] c = BSLASH -> <<BSLASH, BSLASH>>
      [] c = "\n" -> <<BSLASH, "n">>
      [] c = "\r" -> <<BSLASH, "r">>
      [] c = "\t" -> <<BSLASH, "t">>
      [] c = "\f" -> <<BSLASH, "f">>
      [] c = BACKSPACE -> <<BSLASH, "b">>
      [] OTHER -> IF \E n \in 0..31 : FromCharCode(n) = c
                  THEN <<BSLASH, "u", "0", "0">>
                       \o Hex2(CHOOSE n \in 0..31 : FromCharCode(n) = c)
                  ELSE <<c>>

StringifyString(t) == Join([k \in 1..Len(t) |-> StringifyChar(t[k])], <<>>)

StringifyValue(type, v) ==
    IF type = "string" THEN Quoted(StringifyString(v))
    ELSE <<"[">> \o Join([k \in 1..Len(v) |-> Quoted(StringifyString(v[k]))], <<",">>)
         \o <<"]">>

StringifyRecord(schema, rec) ==
    <<"{">>
    \o Join([f \in 1..Len(schema) |->
                Quoted(schema[f].name) \o <<":">>
                \o StringifyValue(schema[f].type, rec[schema[f].name])], <<",">>)
    \o <<"}">>

Stringify(schema, recs) ==
    <<"{">> \o Quoted(Items) \o <<":", "[">>
    \o Join([r \in 1..Len(recs) |-> StringifyRecord(schema, recs[r])], <<",">>)
    \o <<"]", "}">>

----------------------------------------------------------------------------
(* The parse, step by step *)

NoError == [msg |-> "", at |-> 0]

Init ==
    /\ input \in Inputs
    /\ json = Text(input)
    /\ fields = input.schema
    /\ pos = 0
    /\ pc = "parse"
    /\ items = <<>>
    /\ item = <<>>
    /\ fi = 1
    /\ err = NoError
    /\ ends = <<>>
    /\ pass = 1
    /\ first = <<>>
    /\ calls = <<>>
    /\ run = <<>>
    /\ client = <<>>
    /\ orch = <<>>
    /\ digest = <<>>

\* Mutant: the error is noted and the parse goes on after the bad record.
ThrowAndGoOn(r) ==
    /\ pc' = "pushed"
    /\ err' = [msg |-> r.msg, at |-> r.at]
    /\ UNCHANGED <<input, json, fields, pos, items, item, fi, ends, pass, first, aux>>

\* throw new ParseError(message, position)
Throw(r) ==
    /\ pc' = "failed"
    /\ err' = [msg |-> r.msg, at |-> r.at]
    /\ UNCHANGED <<input, json, fields, pos, items, item, fi, ends, pass, first, aux>>

\* parse(), up to the loop: navigate to the items array
Envelope(s, p) ==
    LET a == SkipTo(s, p, "{")
    IN  IF ~a.ok THEN a
        ELSE LET k == ExpectKey(s, Advance(a.pos), Items)
             IN  IF ~k.ok THEN k
                 ELSE LET b == SkipTo(s, k.pos, "[")
                      IN  IF ~b.ok THEN b
                          ELSE Ok(<<>>, SkipWs(s, Advance(b.pos)))

ParseBegin ==
    /\ pc = "parse"
    /\ LET r == Envelope(json, pos)
       IN  IF r.ok
           THEN /\ pos' = r.pos
                /\ pc' = "loop"
                /\ items' = <<>>
                /\ UNCHANGED <<input, json, fields, item, fi, err, ends, pass, first, aux>>
           ELSE Throw(r)

\* parse(): the loop test, and the return
\* Mutant: the loop runs to the end of the text.
LoopContinuesToEnd(s, p) == ~AtEnd(s, p)

LoopContinues(s, p) == ~AtEnd(s, p) /\ Peek(s, p) # "]"

ParseLoop ==
    /\ pc = "loop"
    /\ pc' = IF LoopContinues(json, pos) THEN "object" ELSE "returned"
    /\ UNCHANGED <<input, json, fields, pos, items, item, fi, err, ends, pass, first, aux>>

\* Mutant: the opening brace is found and not passed.
ObjectOpenNoAdvance(s, p) ==
    LET a == SkipTo(s, p, "{")
    IN  IF ~a.ok THEN a ELSE Ok(<<>>, SkipWs(s, a.pos))

\* parseObject(), up to the loop over the fields
ObjectOpen(s, p) ==
    LET a == SkipTo(s, p, "{")
    IN  IF ~a.ok THEN a ELSE Ok(<<>>, SkipWs(s, Advance(a.pos)))

ParseObjectBegin ==
    /\ pc = "object"
    /\ LET r == ObjectOpen(json, pos)
       IN  IF r.ok
           THEN /\ pos' = r.pos
                /\ item' = <<>>
                /\ fi' = 1
                /\ pc' = IF Len(fields) = 0 THEN "close" ELSE "field"
                /\ UNCHANGED <<input, json, fields, items, err, ends, pass, first, aux>>
           ELSE Throw(r)

\* Mutant: the record is replaced, not extended.
AssignFieldAlone(rec, name, value) == [n \in {name} |-> value]

\* item[field.name] = value
AssignField(rec, name, value) ==
    [n \in DOMAIN rec \cup {name} |-> IF n = name THEN value ELSE rec[n]]

NextFieldOf(schema, i) ==
    IF i < Len(schema) THEN Field(schema[i + 1].name) ELSE NoField

ReadValue(s, p, schema, i) ==
    IF schema[i].type = "string"
    THEN ReadAnchoredString(s, p, NextFieldOf(schema, i))
    ELSE ReadStringArray(s, p)

\* parseObject(): one iteration of the loop over the fields
ReadField(s, p, schema, i) ==
    LET k == ExpectKey(s, p, schema[i].name)
    IN  IF ~k.ok THEN k
        ELSE LET v == ReadValue(s, SkipWs(s, k.pos), schema, i)
             IN  IF ~v.ok THEN v
                 ELSE Ok(v.val, SkipWs(s, TryConsume(s, SkipWs(s, v.pos), ",")))

ParseField ==
    /\ pc = "field"
    /\ LET r == ReadField(json, pos, fields, fi)
       IN  IF r.ok
           THEN /\ pos' = r.pos
                /\ item' = AssignField(item, fields[fi].name, r.val)
                /\ fi' = fi + 1
                /\ pc' = IF fi < Len(fields) THEN "field" ELSE "close"
                /\ UNCHANGED <<input, json, fields, items, err, ends, pass, first, aux>>
           ELSE Throw(r)

\* Mutant: the closing brace is found and not passed.
ObjectCloseNoAdvance(s, p) == SkipTo(s, p, "}")

\* parseObject(): the closing brace; parse(): items.push
ObjectClose(s, p) ==
    LET a == SkipTo(s, p, "}")
    IN  IF ~a.ok THEN a ELSE Ok(<<>>, Advance(a.pos))

ParseObjectEnd ==
    /\ pc = "close"
    /\ LET r == ObjectClose(json, pos)
       IN  IF r.ok
           THEN /\ pos' = r.pos
                /\ items' = Append(items, item)
                /\ ends' = Append(ends, r.pos)
                /\ pc' = "pushed"
                /\ UNCHANGED <<input, json, fields, item, fi, err, pass, first, aux>>
           ELSE Throw(r)

\* Mutant: with no comma to consume the cursor steps back onto the brace.
SeparatorStepsBack(s, p) ==
    LET w == SkipWs(s, p)
    IN  IF CharAt(s, w) = "," THEN SkipWs(s, w + 1) ELSE p - 1

\* parse(): skipWs, tryConsume(','), skipWs after a record
Separator(s, p) == SkipWs(s, TryConsume(s, SkipWs(s, p), ","))

ParseSeparator ==
    /\ pc = "pushed"
    /\ pos' = Separator(json, pos)
    /\ pc' = "loop"
    /\ UNCHANGED <<input, json, fields, items, item, fi, err, ends, pass, first, aux>>

\* The caller serializes the result and parses it again.
Reserialize ==
    /\ pc = "returned"
    /\ pass = 1
    /\ json' = Stringify(fields, items)
    /\ first' = items
    /\ pass' = 2
    /\ pos' = 0
    /\ pc' = "parse"
    /\ items' = <<>>
    /\ item' = <<>>
    /\ fi' = 1
    /\ ends' = <<>>
    /\ UNCHANGED <<input, fields, err, aux>>

Next ==
    \/ ParseBegin
    \/ ParseLoop
    \/ ParseObjectBegin
    \/ ParseField
    \/ ParseObjectEnd
    \/ ParseSeparator
    \/ Reserialize

Spec == Init /\ [][Next]_vars

----------------------------------------------------------------------------
(* Calls side by side: each call of parseItemsArray makes its own Parser *)

\* new Parser(json, fields), and the locals of parse() and parseObject()
NewParser(text, schema) ==
    [json |-> text, fields |-> schema, pos |-> 0, pc |-> "parse",
     items |-> <<>>, item |-> <<>>, fi |-> 1, err |-> NoError]

Thrown(st, r) == [st EXCEPT !.pc = "failed", !.err = [msg |-> r.msg, at |-> r.at]]

\* The step a Parser takes next, from its own fields and locals alone.
StepOf(st) ==
    CASE st.pc = "parse" ->
            LET r == Envelope(st.json, st.pos)
            IN  IF r.ok THEN [st EXCEPT !.pos = r.pos, !.pc = "loop", !.items = <<>>]
                ELSE Thrown(st, r)
      [] st.pc = "loop" ->
            [st EXCEPT !.pc = IF LoopContinues(st.json, st.pos) THEN "object"
                              ELSE "returned"]
      [] st.pc = "object" ->
            LET r == ObjectOpen(st.json, st.pos)
            IN  IF r.ok
                THEN [st EXCEPT !.pos = r.pos, !.item = <<>>, !.fi = 1,
                                !.pc = IF Len(st.fields) = 0 THEN "close" ELSE "field"]
                ELSE Thrown(st, r)
      [] st.pc = "field" ->
            LET r == ReadField(st.json, st.pos, st.fields, st.fi)
            IN  IF r.ok
                THEN [st EXCEPT !.pos = r.pos,
                                !.item = AssignField(st.item, st.fields[st.fi].name, r.val),
                                !.fi = st.fi + 1,
                                !.pc = IF st.fi < Len(st.fields) THEN "field" ELSE "close"]
                ELSE Thrown(st, r)
      [] st.pc = "close" ->
            LET r == ObjectClose(st.json, st.pos)
            IN  IF r.ok
                THEN [st EXCEPT !.pos = r.pos, !.items = Append(st.items, st.item),
                                !.pc = "pushed"]
                ELSE Thrown(st, r)
      [] st.pc = "pushed" ->
            [st EXCEPT !.pos = Separator(st.json, st.pos), !.pc = "loop"]
      [] OTHER -> st

Done(st) == st.pc \in {"returned", "failed"}

\* Mutant: the cursor is one variable that every Parser reads and writes.
CallStepSharedCursor(cs, c) ==
    LET st == StepOf(cs[c])
    IN  [d \in DOMAIN cs |-> IF d = c THEN st ELSE [cs[d] EXCEPT !.pos = st.pos]]

\* A step of call c changes the Parser of call c and nothing else.
CallStepOf(cs, c) == [cs EXCEPT ![c] = StepOf(cs[c])]

\* The arguments of the calls: three texts, each with three schemas.
CallTexts ==
    {Text(Scenario("layout", TitleTagsUrl, DefaultRecs(TitleTagsUrl, 2), <<" ">>,
                   TRUE, NoDefect)),
     Text(WithValue(Scenario("value", TitleUrl, DefaultRecs(TitleUrl, 1), <<>>,
                             FALSE, NoDefect), 1, 1, <<SayHello>>)),
     Text(Scenario("defect", TitleTagsUrl, DefaultRecs(TitleTagsUrl, 2), <<>>,
                   FALSE, Defect("listBadElem", 2, 2)))}

CallSchemas == {TitleTagsUrl, TitleUrl, TitleOnly}

CallArgs == CallTexts \X CallSchemas

CallsInit ==
    /\ calls \in {<<NewParser(a[1], a[2]), NewParser(b[1], b[2])>>
                     : a \in CallArgs, b \in CallArgs}
    /\ input = <<>>
    /\ json = <<>>
    /\ fields = <<>>
    /\ pos = 0
    /\ pc = "idle"
    /\ items = <<>>
    /\ item = <<>>
    /\ fi = 1
    /\ err = NoError
    /\ ends = <<>>
    /\ pass = 1
    /\ first = <<>>
    /\ run = <<>>
    /\ client = <<>>
    /\ orch = <<>>
    /\ digest = <<>>

CallStep(c) ==
    /\ ~Done(calls[c])
    /\ calls' = CallStepOf(calls, c)
    /\ UNCHANGED <<input, json, fields, pos, pc, items, item, fi, err, ends, pass,
                   first, run, client, orch, digest>>

CallsNext == \E c \in 1..2 : CallStep(c)

CallsSpec == CallsInit /\ [][CallsNext]_vars

----------------------------------------------------------------------------
(* The pipeline runner: scripts/run-pipeline.ts *)

EXIT_SUCCESS == 0
EXIT_PARTIAL_FAILURE == 1
EXIT_CRITICAL_FAILURE == 2

\* The scrapers scrapeAllSources runs.
NumSources == 4
\* Most items a step hands to the next.
MaxItems == 2

\* The variables of the parser, which the runner leaves alone.
parserVars ==
    <<input, json, fields, pos, pc, items, item, fi, err, ends, pass, first>>

\* The PipelineResult of runPipeline, the runner's position, and what
\* happened: the steps completed, the sources and the summaries that failed,
\* why the run stopped, whether the digest was written, the exit code.
NewRun ==
    [pc |-> "args", success |-> FALSE, partialFailure |-> FALSE, errors |-> 0,
     steps |-> 0, failedSources |-> 0, totalItems |-> 0, processed |-> 0,
     failedCount |-> 0, stopped |-> "none", written |-> FALSE, exit |-> -1]

PipelineInit ==
    /\ run = NewRun
    /\ client = <<>>
    /\ orch = <<>>
    /\ digest = <<>>
    /\ calls = <<>>
    /\ input = <<>>
    /\ json = <<>>
    /\ fields = <<>>
    /\ pos = 0
    /\ pc = "idle"
    /\ items = <<>>
    /\ item = <<>>
    /\ fi = 1
    /\ err = NoError
    /\ ends = <<>>
    /\ pass = 1
    /\ first = <<>>

\* A step failed: the error is pushed and runPipeline returns its result.
Stopped(r, why) ==
    [r EXCEPT !.errors = r.errors + 1, !.stopped = why, !.pc = "main"]

\* parseArgs(): a --date that is no date ends the process at once.
ParseArgs ==
    /\ run.pc = "args"
    /\ \E valid \in BOOLEAN :
          run' = IF valid THEN [run EXCEPT !.pc = "scrape"]
                 ELSE [run EXCEPT !.pc = "exited", !.stopped = "badDate",
                                  !.exit = EXIT_CRITICAL_FAILURE]
    /\ UNCHANGED <<parserVars, calls, client, orch, digest>>

\* Step 1.  scrapeAllSources throws when every source failed; otherwise it
\* gives the sources that failed and the items of the others.
ScrapeThrew ==
    /\ run.pc = "scrape"
    /\ run' = Stopped([run EXCEPT !.failedSources = NumSources], "scrapeThrew")
    /\ UNCHANGED <<parserVars, calls, client, orch, digest>>

Scraped(r, failed, total) ==
    LET noted == [r EXCEPT !.failedSources = failed, !.totalItems = total,
                           !.partialFailure = failed > 0,
                           !.errors = IF failed > 0 THEN r.errors + 1 ELSE r.errors]
    IN  IF total = 0 THEN Stopped(noted, "noItems")
        ELSE [noted EXCEPT !.steps = 1, !.pc = "process"]

Scrape ==
    /\ run.pc = "scrape"
    /\ \E failed \in 0..(NumSources - 1), total \in 0..MaxItems :
          run' = Scraped(run, failed, total)
    /\ UNCHANGED <<parserVars, calls, client, orch, digest>>

\* Step 2.  deduplicateAndCategorize throws or gives the items it kept.
ProcessThrew ==
    /\ run.pc = "process"
    /\ run' = Stopped(run, "processThrew")
    /\ UNCHANGED <<parserVars, calls, client, orch, digest>>

Processed(r, kept) ==
    LET noted == [r EXCEPT !.processed = kept]
    IN  IF kept = 0 THEN Stopped(noted, "noProcessed")
        ELSE [noted EXCEPT !.steps = 2, !.pc = "summarize"]

Process ==
    /\ run.pc = "process"
    /\ \E kept \in 0..run.totalItems : run' = Processed(run, kept)
    /\ UNCHANGED <<parserVars, calls, client, orch, digest>>

\* Step 3.  generateSummaries throws or gives the count of the summaries
\* that failed.
SummarizeThrew ==
    /\ run.pc = "summarize"
    /\ run' = Stopped(run, "summaryThrew")
    /\ UNCHANGED <<parserVars, calls, client, orch, digest>>

Summarized(r, failedCount) ==
    [r EXCEPT !.failedCount = failedCount,
              !.partialFailure = r.partialFailure \/ failedCount > 0,
              !.errors = IF failedCount > 0 THEN r.errors + 1 ELSE r.errors,
              !.steps = 3, !.pc = "digest"]

Summarize ==
    /\ run.pc = "summarize"
    /\ \E failedCount \in 0..run.processed : run' = Summarized(run, failedCount)
    /\ UNCHANGED <<parserVars, calls, client, orch, digest>>

\* Step 4.  generateDigest throws, or has written the file when it returns.
DigestThrew ==
    /\ run.pc = "digest"
    /\ run' = Stopped(run, "digestThrew")
    /\ UNCHANGED <<parserVars, calls, client, orch, digest>>

Digest ==
    /\ run.pc = "digest"
    /\ run' = [run EXCEPT !.written = TRUE, !.success = TRUE, !.steps = 4,
                          !.pc = "main"]
    /\ UNCHANGED <<parserVars, calls, client, orch, digest>>

\* Mutant: a run with warnings exits as a success.
ExitCodeNoPartial(r) ==
    IF ~r.success THEN EXIT_CRITICAL_FAILURE ELSE EXIT_SUCCESS

\* main(): the exit code of a PipelineResult
ExitCode(r) ==
    IF ~r.success THEN EXIT_CRITICAL_FAILURE
    ELSE IF r.partialFailure THEN EXIT_PARTIAL_FAILURE
    ELSE EXIT_SUCCESS

Main ==
    /\ run.pc = "main"
    /\ run' = [run EXCEPT !.exit = ExitCode(run), !.pc = "exited"]
    /\ UNCHANGED <<parserVars, calls, client, orch, digest>>

PipelineNext ==
    \/ ParseArgs
    \/ ScrapeThrew
    \/ Scrape
    \/ ProcessThrew
    \/ Process
    \/ SummarizeThrew
    \/ Summarize
    \/ DigestThrew
    \/ Digest
    \/ Main

PipelineSpec == PipelineInit /\ [][PipelineNext]_vars

----------------------------------------------------------------------------
(* The Claude client: src/lib/claude.ts, sendMessage and its retries *)

RETRY_DELAY_MS == 1000
\* Largest maxRetries a client is configured with.
MaxRetries == 3

\* What the parser, the calls and the runner are when the client runs.
IdleParser ==
    /\ input = <<>>
    /\ json = <<>>
    /\ fields = <<>>
    /\ pos = 0
    /\ pc = "idle"
    /\ items = <<>>
    /\ item = <<>>
    /\ fi = 1
    /\ err = NoError
    /\ ends = <<>>
    /\ pass = 1
    /\ first = <<>>
    /\ calls = <<>>
    /\ run = <<>>

\* What client.messages.create rejects with: the class of the value, whether
\* it is an instance of Anthropic.APIError, and its status.
ApiFailure(cls, api, status) == [cls |-> cls, api |-> api, status |-> status]

\* APIConnectionError is taken both as a subclass of APIError and as a class
\* of its own: the library, not this repository, decides.
Failures ==
    {ApiFailure("AuthenticationError", TRUE, 401),
     ApiFailure("RateLimitError", TRUE, 429),
     ApiFailure("BadRequestError", TRUE, 400),
     ApiFailure("InternalServerError", TRUE, 500),
     ApiFailure("APIError", TRUE, 529),
     ApiFailure("APIError", TRUE, 404),
     ApiFailure("APIConnectionError", TRUE, 0),
     ApiFailure("APIConnectionError", FALSE, 0),
     ApiFailure("Error", FALSE, 0),
     ApiFailure("NotAnError", FALSE, 0)}

NoFailure == ApiFailure("none", FALSE, 0)

\* Mutant: every error is retried.
IsRetryableErrorAlways(e) == TRUE

IsRetryableError(e) ==
    IF e.api
    THEN e.cls = "RateLimitError" \/ e.cls = "InternalServerError" \/ e.status = 529
    ELSE e.cls = "APIConnectionError"

\* wrapError: the ClaudeClientError made of an error, its code and its cause.
WrapError(e) ==
    [code |-> CASE e.cls = "AuthenticationError" -> "AUTHENTICATION_ERROR"
                [] e.cls = "RateLimitError" -> "RATE_LIMIT_ERROR"
                [] e.cls = "BadRequestError" -> "BAD_REQUEST_ERROR"
                [] e.cls = "APIConnectionError" -> "CONNECTION_ERROR"
                [] e.cls = "InternalServerError" -> "SERVER_ERROR"
                [] e.api -> "API_ERROR"
                [] OTHER -> "UNKNOWN_ERROR",
     cause |-> IF e.cls = "NotAnError" THEN NoFailure ELSE e]

RECURSIVE Pow2(_)
Pow2(n) == IF n = 0 THEN 1 ELSE 2 * Pow2(n - 1)

\* A call of sendMessage: the client's maxRetries, the option
\* enableWebSearch (a handler is set), the locals attempt and lastError, and
\* what the call did: the requests it made, the errors they met, the delays
\* it slept, whether it went through handleToolUse, what it threw.
NewCall(n, web) ==
    [maxRetries |-> n, enableWebSearch |-> web, pc |-> "loop", attempt |-> 0,
     lastError |-> NoFailure, requests |-> 0, failures |-> <<>>, slept |-> <<>>,
     toolUsed |-> FALSE, thrown |-> [code |-> "", cause |-> NoFailure]]

ClientInit ==
    /\ client \in {NewCall(n, web) : n \in 0..MaxRetries, web \in BOOLEAN}
    /\ orch = <<>>
    /\ digest = <<>>
    /\ IdleParser

\* while (attempt < this.maxRetries): the request is made, or the loop is
\* left and MAX_RETRIES_EXCEEDED is thrown.
Request ==
    /\ client.pc = "loop"
    /\ client' = IF client.attempt < client.maxRetries
                 THEN [client EXCEPT !.pc = "call", !.requests = @ + 1]
                 ELSE [client EXCEPT !.pc = "thrown",
                                     !.thrown = [code |-> "MAX_RETRIES_EXCEEDED",
                                                 cause |-> client.lastError]]
    /\ UNCHANGED <<input, json, fields, pos, pc, items, item, fi, err, ends, pass,
                   first, calls, run, orch, digest>>

\* The request resolves.  With web search enabled a response that stops for
\* tool use goes to handleToolUse, which calls sendMessage again with web
\* search disabled; any other response is returned.
Respond ==
    /\ client.pc = "call"
    /\ \E stop \in {"end_turn", "tool_use"} :
          client' = IF client.enableWebSearch /\ stop = "tool_use"
                    THEN [client EXCEPT !.pc = "loop", !.enableWebSearch = FALSE,
                                        !.attempt = 0, !.lastError = NoFailure,
                                        !.toolUsed = TRUE]
                    ELSE [client EXCEPT !.pc = "returned"]
    /\ UNCHANGED <<input, json, fields, pos, pc, items, item, fi, err, ends, pass,
                   first, calls, run, orch, digest>>

\* The catch block, for the error e and the attempt count it finds.
Caught(c, e) ==
    LET n == c.attempt + 1
        noted == [c EXCEPT !.lastError = IF e.cls = "NotAnError"
                                         THEN ApiFailure("Error", FALSE, 0) ELSE e,
                           !.attempt = n,
                           !.failures = Append(@, e)]
    IN  IF IsRetryableError(e) /\ n < c.maxRetries
        THEN [noted EXCEPT !.pc = "sleep",
                           !.slept = Append(@, RETRY_DELAY_MS * Pow2(n - 1))]
        ELSE [noted EXCEPT !.pc = "thrown", !.thrown = WrapError(e)]

\* The request rejects.
Reject ==
    /\ client.pc = "call"
    /\ \E e \in Failures : client' = Caught(client, e)
    /\ UNCHANGED <<input, json, fields, pos, pc, items, item, fi, err, ends, pass,
                   first, calls, run, orch, digest>>

\* await sleep(delay) is over: continue.
Wake ==
    /\ client.pc = "sleep"
    /\ client' = [client EXCEPT !.pc = "loop"]
    /\ UNCHANGED <<input, json, fields, pos, pc, items, item, fi, err, ends, pass,
                   first, calls, run, orch, digest>>

ClientNext ==
    \/ Request
    \/ Respond
    \/ Reject
    \/ Wake

ClientSpec == ClientInit /\ [][ClientNext]_vars

----------------------------------------------------------------------------
(* The scrape orchestrator: src/lib/scrapers/orchestrator.ts *)

\* The sources, in the order of the array given to Promise.allSettled.
SourceNames == <<"hackernews", "reddit", "lobsters", "devto">>

Sources == {SourceNames[i] : i \in 1..Len(SourceNames)}

\* The items a scraper gives: the n-th item of source s.
ScrapedItems(s, n) == [k \in 1..n |-> [source |-> s, n |-> k]]

\* The SourceResult of a source whose scraper has not settled yet.
Pending(s) == [source |-> s, settled |-> FALSE, success |-> FALSE, items |-> <<>>]

\* scrapeSource: the result when the scraper resolved and every item was
\* normalized, and the result when the scraper or the normalizer threw.
Succeeded(s, n) ==
    [source |-> s, settled |-> TRUE, success |-> TRUE, items |-> ScrapedItems(s, n)]
Errored(s) == [source |-> s, settled |-> TRUE, success |-> FALSE, items |-> <<>>]

\* scrapeAllSources: the four promises, the order in which they settled,
\* and what the function gave.
NewScrape ==
    [results |-> [s \in Sources |-> Pending(s)], order |-> <<>>, pc |-> "waiting",
     items |-> <<>>, totalItems |-> 0, successfulSources |-> <<>>,
     failedSources |-> <<>>, code |-> ""]

OrchInit ==
    /\ orch = NewScrape
    /\ client = <<>>
    /\ digest = <<>>
    /\ IdleParser

\* The scraper of source s resolves with n items.
Fulfil(s) ==
    /\ orch.pc = "waiting"
    /\ ~orch.results[s].settled
    /\ \E n \in 0..MaxItems :
          orch' = [orch EXCEPT !.results[s] = Succeeded(s, n),
                               !.order = Append(@, s)]
    /\ UNCHANGED <<input, json, fields, pos, pc, items, item, fi, err, ends, pass,
                   first, calls, run, client, digest>>

\* The scraper of source s, or the normalizer of one of its items, throws.
Fail(s) ==
    /\ orch.pc = "waiting"
    /\ ~orch.results[s].settled
    /\ orch' = [orch EXCEPT !.results[s] = Errored(s), !.order = Append(@, s)]
    /\ UNCHANGED <<input, json, fields, pos, pc, items, item, fi, err, ends, pass,
                   first, calls, run, client, digest>>

\* Mutant: the results are taken in the order in which the scrapers settled.
SourceResultsAsSettled(o) == [i \in 1..Len(o.order) |-> o.results[o.order[i]]]

\* results.map(...): the SourceResults, in the order of the array.
SourceResults(o) == [i \in 1..Len(SourceNames) |-> o.results[SourceNames[i]]]

\* What scrapeAllSources does once the four promises have settled.
Gathered(o) ==
    LET rs == SourceResults(o)
        good == SelectSeq(rs, LAMBDA r : r.success)
        bad == SelectSeq(rs, LAMBDA r : ~r.success)
        allItems == JoinRange([i \in 1..Len(rs) |-> rs[i].items], <<>>, 1, Len(rs))
        noted == [o EXCEPT !.successfulSources = [i \in 1..Len(good) |-> good[i].source],
                           !.failedSources = [i \in 1..Len(bad) |-> bad[i].source]]
    IN  IF Len(good) = 0
        THEN [noted EXCEPT !.pc = "thrown", !.code = "ALL_SOURCES_FAILED"]
        ELSE [noted EXCEPT !.pc = "returned", !.items = allItems,
                           !.totalItems = Len(allItems)]

\* Promise.allSettled resolves: every scraper has settled.
Gather ==
    /\ orch.pc = "waiting"
    /\ \A s \in Sources : orch.results[s].settled
    /\ orch' = Gathered(orch)
    /\ UNCHANGED <<input, json, fields, pos, pc, items, item, fi, err, ends, pass,
                   first, calls, run, client, digest>>

OrchNext ==
    \/ \E s \in Sources : Fulfil(s)
    \/ \E s \in Sources : Fail(s)
    \/ Gather

OrchSpec == OrchInit /\ [][OrchNext]_vars

----------------------------------------------------------------------------
(* The digest generator: createDigest, serializeDigest, validateFileSize *)
(* and trimToFitSize                                                     *)

\* Most items a digest is created with.
MaxDigestItems == 3

\* A NewsItem: its rank in the digest and the characters of its JSON text.
NewsItem(k, body) == [id |-> k, body |-> body]

\* The item lists digests are created from: each item short or long.
ItemLists ==
    UNION {{[k \in 1..n |-> NewsItem(k, IF k \in long THEN <<"x", "x", "x">>
                                         ELSE <<"x">>)]
               : long \in SUBSET (1..n)}
           : n \in 0..MaxDigestItems}

\* createDigest(items, date)
CreateDigest(its) ==
    [date |-> "date", generated_at |-> "now", item_count |-> Len(its), items |-> its]

\* JSON.stringify(digest, null, 2), one element per byte or per member that
\* does not depend on the items.
SerializeDigest(d) ==
    <<"{", d.date, d.generated_at, ToString(d.item_count), "[">>
    \o JoinRange([k \in 1..Len(d.items) |-> <<"{">> \o d.items[k].body \o <<"}">>],
                 <<",">>, 1, Len(d.items))
    \o <<"]", "}">>

\* validateFileSize(jsonStr, maxBytes)
ValidateFileSize(jsonStr, maxBytes) ==
    [valid |-> Len(jsonStr) <= maxBytes, sizeBytes |-> Len(jsonStr)]

\* The largest size limit tried: one more than the largest digest takes.
MaxBytes ==
    Len(SerializeDigest(CreateDigest([k \in 1..MaxDigestItems |->
                                         NewsItem(k, <<"x", "x", "x">>)]))) + 1

\* A call of trimToFitSize: its arguments, the local currentDigest, valid
\* and sizeBytes, and whether it warned and returned.
NewTrim(d, maxBytes, minItems) ==
    [given |-> d, maxBytes |-> maxBytes, minItems |-> minItems, currentDigest |-> d,
     valid |-> ValidateFileSize(SerializeDigest(d), maxBytes).valid,
     sizeBytes |-> ValidateFileSize(SerializeDigest(d), maxBytes).sizeBytes,
     pc |-> "loop", warned |-> FALSE]

TrimInit ==
    /\ digest \in {NewTrim(CreateDigest(its), maxBytes, minItems)
                      : its \in ItemLists, maxBytes \in 0..MaxBytes,
                        minItems \in 0..(MaxDigestItems + 1)}
    /\ client = <<>>
    /\ orch = <<>>
    /\ IdleParser

\* Mutant: the first item is removed, not the last.
WithoutFirstItem(d) ==
    [d EXCEPT !.items = SubSeq(d.items, 2, Len(d.items)),
              !.item_count = Len(d.items) - 1]

\* { ...currentDigest, items: items.slice(0, -1), item_count: items.length - 1 }
WithoutLastItem(d) ==
    [d EXCEPT !.items = SubSeq(d.items, 1, Len(d.items) - 1),
              !.item_count = Len(d.items) - 1]

\* One iteration of the loop: the last item is removed and the size is
\* taken again.
TrimOne ==
    /\ digest.pc = "loop"
    /\ ~digest.valid
    /\ Len(digest.currentDigest.items) > digest.minItems
    /\ LET d == WithoutLastItem(digest.currentDigest)
           v == ValidateFileSize(SerializeDigest(d), digest.maxBytes)
       IN  digest' = [digest EXCEPT !.currentDigest = d, !.valid = v.valid,
                                    !.sizeBytes = v.sizeBytes]
    /\ UNCHANGED <<input, json, fields, pos, pc, items, item, fi, err, ends, pass,
                   first, calls, run, client, orch>>

\* The loop is left: the warning, and the return.
TrimReturn ==
    /\ digest.pc = "loop"
    /\ digest.valid \/ Len(digest.currentDigest.items) <= digest.minItems
    /\ digest' = [digest EXCEPT !.pc = "returned", !.warned = ~digest.valid]
    /\ UNCHANGED <<input, json, fields, pos, pc, items, item, fi, err, ends, pass,
                   first, calls, run, client, orch>>

TrimNext ==
    \/ TrimOne
    \/ TrimReturn

TrimSpec == TrimInit /\ [][TrimNext]_vars

----------------------------------------------------------------------------
(* What the claims speak of *)

JsonWs == {" ", "\t", "\n", "\r"}
StandardEscapes == {QUOTE, BSLASH, "/", "b", "f", "n", "r", "t"}

\* The offsets, from i on, of the quotes of raw that no backslash escapes.
RECURSIVE BareQuotes(_, _)
BareQuotes(raw, i) ==
    IF i >= Len(raw) THEN {}
    ELSE IF raw[i + 1] = BSLASH THEN BareQuotes(raw, i + 2)
    ELSE IF raw[i + 1] = QUOTE THEN {i} \cup BareQuotes(raw, i + 1)
    ELSE BareQuotes(raw, i + 1)

HasBareQuote(raw) == BareQuotes(raw, 0) # {}

\* Every backslash of raw starts an escape of the JSON grammar.
RECURSIVE ValidEscapes(_, _)
ValidEscapes(raw, i) ==
    IF i >= Len(raw) THEN TRUE
    ELSE IF raw[i + 1] # BSLASH THEN ValidEscapes(raw, i + 1)
    ELSE IF CharAt(raw, i + 1) \in StandardEscapes THEN ValidEscapes(raw, i + 2)
    ELSE /\ CharAt(raw, i + 1) = "u"
         /\ \A k \in 2..5 : IsHex(CharAt(raw, i + k))
         /\ ValidEscapes(raw, i + 6)

\* The string a raw value stands for: JSON's escapes decoded, every other
\* character (a bare quote too) taken as it is.
RECURSIVE RefDecode(_, _)
RefDecode(raw, i) ==
    IF i >= Len(raw) THEN <<>>
    ELSE IF raw[i + 1] # BSLASH THEN <<raw[i + 1]>> \o RefDecode(raw, i + 1)
    ELSE IF CharAt(raw, i + 1) = "u"
    THEN <<FromCharCode(HexVal(raw[i + 3]) * 4096 + HexVal(raw[i + 4]) * 256
                        + HexVal(raw[i + 5]) * 16 + HexVal(raw[i + 6]))>>
         \o RefDecode(raw, i + 6)
    ELSE <<CASE raw[i + 2] = "b" -> BACKSPACE
             [] raw[i + 2] = "f" -> "\f"
             [] raw[i + 2] = "n" -> "\n"
             [] raw[i + 2] = "r" -> "\r"
             [] raw[i + 2] = "t" -> "\t"
             [] OTHER -> raw[i + 2]>>
         \o RefDecode(raw, i + 2)

Decoded(raw) == RefDecode(raw, 0)

Squeeze(t) == SelectSeq(t, LAMBDA c : c \notin JsonWs)

IsPrefix(a, b) == Len(a) <= Len(b) /\ SubSeq(b, 1, Len(a)) = a

After(raw, q) == Squeeze(SubSeq(raw, q + 2, Len(raw)))

\* comma, quote, the next field's name, quote, colon
NextFieldAnchor(name) == <<",", QUOTE>> \o name \o <<QUOTE, ":">>

\* Some bare quote of raw is followed, whitespace ignored, by the anchor of
\* the field after it.
FormsNextFieldAnchor(raw, name) ==
    \E q \in BareQuotes(raw, 0) : IsPrefix(NextFieldAnchor(name), After(raw, q))

\* Some bare quote of raw is followed, whitespace ignored, by what ends a
\* record for the last field: }, or , and }, or ].
FormsRecordEnd(raw) ==
    \E q \in BareQuotes(raw, 0) :
        \/ IsPrefix(<<"}">>, After(raw, q))
        \/ IsPrefix(<<",", "}">>, After(raw, q))
        \/ IsPrefix(<<"]">>, After(raw, q))

\* Some bare quote of the raw value of field f is followed by f's own anchor.
FormsOwnAnchor(schema, f, raw) ==
    IF f < Len(schema) THEN FormsNextFieldAnchor(raw, schema[f + 1].name)
    ELSE FormsRecordEnd(raw)

\* The value the scenario changed, and where.
FocusRec == input.focus[1]
FocusFld == input.focus[2]
FocusRaw == input.recs[FocusRec][FocusFld][1]
FocusName == input.schema[FocusFld].name
FocusIsString ==
    /\ input.family = "value"
    /\ input.schema[FocusFld].type = "string"

\* What a strict JSON parser returns for the text of a scenario whose values
\* are valid JSON string bodies: the decoded values, record by record.
StrictValue(type, v) ==
    IF type = "string" THEN Decoded(v[1]) ELSE [k \in 1..Len(v) |-> Decoded(v[k])]

StrictRecord(sc, r) ==
    [n \in {sc.schema[f].name : f \in 1..Len(sc.schema)} |->
        LET f == CHOOSE g \in 1..Len(sc.schema) :
                    /\ sc.schema[g].name = n
                    /\ \A h \in (g + 1)..Len(sc.schema) : sc.schema[h].name # n
        IN  StrictValue(sc.schema[f].type, sc.recs[r][f])]

StrictParse(sc) == [r \in 1..Len(sc.recs) |-> StrictRecord(sc, r)]

\* The offset just past the closing brace of record k of the generated text.
TrueEnd(sc, k) == Len(TextThrough(sc, k))

Returned == pc = "returned"
Failed == pc = "failed"

\* Every raw string of the scenario is a valid JSON string body without any
\* quote character.
QuoteFree(raw) == \A k \in 1..Len(raw) : raw[k] # QUOTE

StrictValues(sc) ==
    \A r \in 1..Len(sc.recs) : \A f \in 1..Len(sc.schema) :
        \A e \in 1..Len(sc.recs[r][f]) :
            QuoteFree(sc.recs[r][f][e]) /\ ValidEscapes(sc.recs[r][f][e], 0)

\* The text of the scenario is strictly valid JSON.
StrictJson(sc) ==
    /\ sc.defect.kind = "none"
    /\ ~sc.comma
    /\ \A k \in 1..Len(sc.ws) : sc.ws[k] \in JsonWs
    /\ StrictValues(sc)

LastIsString(sc) ==
    Len(sc.schema) > 0 /\ sc.schema[Len(sc.schema)].type = "string"

\* Every record is closed where its closing brace stands in the generated text.
CursorAtTrueEnds ==
    /\ \A k \in 1..Len(ends) : ends[k] = TrueEnd(input, k)
    /\ pc = "pushed" => pos = TrueEnd(input, Len(items))

\* One record per input record, in input order, each value the decoding of
\* its own raw text.
OwnValuesOnly ==
    /\ Len(items) = Len(input.recs)
    /\ \A k \in 1..Len(items) : \A f \in 1..Len(input.schema) :
          items[k][input.schema[f].name]
              = StrictValue(input.schema[f].type, input.recs[k][f])

FocusValueKept ==
    /\ Len(items) = Len(input.recs)
    /\ items[FocusRec][FocusName] = Decoded(FocusRaw)

\* The changed value is a string with a bare quote, and nothing else wrong.
EmbeddedQuoteValue ==
    /\ FocusIsString
    /\ HasBareQuote(FocusRaw)
    /\ ValidEscapes(FocusRaw, 0)

IsString(v) == v \in Seq(STRING)
IsStringList(v) == \A k \in DOMAIN v : IsString(v[k])

----------------------------------------------------------------------------
(* The claims *)

\* C1: a scalar-string value that is followed by another declared field and
\* holds bare quotes, none of them followed (whitespace ignored) by comma,
\* quote, the next field's name, quote, colon, is decoded with every such quote
\* kept as a literal character and is not truncated: the parse does not fail
\* and the record holds the whole value.
C1_EmbeddedQuotesKept ==
    (/\ pass = 1
     /\ EmbeddedQuoteValue
     /\ FocusFld < Len(input.schema)
     /\ ~FormsNextFieldAnchor(FocusRaw, input.schema[FocusFld + 1].name))
    => /\ ~Failed
       /\ Returned => FocusValueKept

\* The scenario of the specification: title is Say "hi" now, url follows.
C1_Witness ==
    /\ pass = 1
    /\ Returned
    /\ FocusIsString
    /\ input.schema = TitleUrl
    /\ FocusFld = 1
    /\ FocusRaw = SayHello
    /\ input.ws = <<" ">>
    /\ items[FocusRec][Title] = SayHello

C3_StrictJsonEquivalence ==
    (pass = 1 /\ StrictJson(input))
    => /\ ~Failed
       /\ Returned => items = StrictParse(input)

\* A value with an escape, between spaced tokens, parsed as strict JSON is.
C3_Witness ==
    /\ pass = 1
    /\ Returned
    /\ StrictJson(input)
    /\ FocusIsString
    /\ FocusRaw = EscapedNewline
    /\ input.ws = <<" ">>
    /\ items = StrictParse(input)
    /\ items[FocusRec][FocusName] = <<"a", "\n", "b">>

\* C4: a record that lacks a declared key, carries another key where a field
\* is expected, or has a malformed string list makes the parse raise a
\* ParseError; the parse never returns a result for such a text.
C4_BadRecordRaises ==
    (/\ pass = 1
     /\ input.defect.kind \in {"missingKey", "wrongKey", "listNoOpen",
                               "listBadElem", "listNoClose"})
    => ~Returned

\* C5: a text in which a record's closing brace is missing, whether the text
\* ends there or goes on with the closing bracket and the envelope's brace,
\* makes the parse fail, at an offset that is not 0; no result is returned.
C5_MissingBraceFails ==
    (pass = 1 /\ input.defect.kind \in {"noBrace", "cut"})
    => /\ ~Returned
       /\ Failed => err.at # 0

C7_LastFieldTrailingComma ==
    (pass = 1 /\ input.family = "layout" /\ LastIsString(input))
    => /\ ~Failed
       /\ CursorAtTrueEnds
       /\ Returned => OwnValuesOnly

\* Records whose last string is followed by whitespace, a comma and the brace.
C7_Witness ==
    /\ pass = 1
    /\ Returned
    /\ input.family = "layout"
    /\ LastIsString(input)
    /\ input.comma
    /\ input.ws # <<>>
    /\ Len(items) >= 2
    /\ OwnValuesOnly

\* C8: for every schema, an empty items array, with any whitespace inside the
\* brackets, gives an empty sequence and no error.
C8_EmptyItems ==
    (pass = 1 /\ input.family = "empty")
    => /\ ~Failed
       /\ Len(items) = 0
       /\ pc \in {"parse", "loop", "returned"}

C8_Witness ==
    /\ pass = 1
    /\ Returned
    /\ input.family = "empty"
    /\ input.schema = TitleTagsUrl
    /\ input.ws # <<>>
    /\ items = <<>>

\* C9: a string list with no element, with any whitespace inside, decodes to
\* the empty sequence wherever the field stands in the schema, and the fields
\* after it are parsed as they stand.
C9_EmptyList ==
    (pass = 1 /\ input.family = "emptyList")
    => /\ ~Failed
       /\ CursorAtTrueEnds
       /\ Returned => (OwnValuesOnly /\ items[FocusRec][FocusName] = <<>>)

\* An empty list in the middle of the schema, with whitespace inside.
C9_Witness ==
    /\ pass = 1
    /\ Returned
    /\ input.family = "emptyList"
    /\ input.schema = TitleTagsUrl
    /\ input.ws # <<>>
    /\ items[FocusRec][Tags] = <<>>
    /\ items[FocusRec][Url] = <<DefaultChar(FocusRec, 3)>>

\* C10: every record of the result has exactly the names of the schema as its
\* keys, a string under each string field and a sequence of strings under
\* each list field.
C10_RecordShape ==
    \A k \in 1..Len(items) :
        /\ DOMAIN items[k] = {fields[f].name : f \in 1..Len(fields)}
        /\ \A f \in 1..Len(fields) :
              IF fields[f].type = "string" THEN IsString(items[k][fields[f].name])
              ELSE IsStringList(items[k][fields[f].name])

C10_Witness ==
    /\ pass = 1
    /\ Returned
    /\ fields = TitleTagsUrl
    /\ Len(items) >= 2
    /\ DOMAIN items[2] = {Title, Tags, Url}

\* C11: a parse either returns or raises: nothing is done after a ParseError
\* was raised (the records already parsed are never returned and no later
\* record is read), the records held when the error is raised stay where they
\* are, and the parse returns only with no error raised and only where the
\* loop over the records has come to its end.
C11_AllOrNothing ==
    [][/\ pc # "failed"
       /\ pc' = "failed" => (err' # NoError /\ items' = items)
       /\ pc' = "returned" => (err' = NoError /\ ~LoopContinues(json', pos'))]_vars

\* The first record was parsed, the second has a malformed list: the parse
\* failed holding the one record it does not return.
C11_Witness ==
    /\ Failed
    /\ input.defect.kind = "listBadElem"
    /\ input.defect.rec = 2
    /\ Len(items) = 1
    /\ err.msg = "Expected char"

IsSuffix(a, b) == Len(a) <= Len(b) /\ SubSeq(b, Len(b) - Len(a) + 1, Len(b)) = a

\* The parse failed with "Unterminated string" while reading the string field fi.
AnchoredUnterminated ==
    /\ Failed
    /\ err.msg = "Unterminated string"
    /\ fi \in 1..Len(fields)
    /\ fields[fi].type = "string"

\* Offset p is where the value of field fi starts: right after a quote that
\* follows, whitespace ignored, the field's key and its colon.
AtValueStart(p) ==
    /\ p \in 1..Len(json)
    /\ json[p] = QUOTE
    /\ IsSuffix(Quoted(fields[fi].name) \o <<":">>,
                SelectSeq(SubSeq(json, 1, p - 1), LAMBDA c : ~IsWs(c)))

\* The record being built holds the fields before field fi and no other.
OnlyEarlierFields == DOMAIN item = {fields[g].name : g \in 1..(fi - 1)}

\* C12 as stated: when the anchored reader comes to the end of the text, the
\* position of "Unterminated string" is where the value starts, which is
\* neither 0 nor the end of the text, and the field gets no value.
C12_AsStated ==
    AnchoredUnterminated
    => /\ AtValueStart(err.at)
       /\ err.at # 0
       /\ err.at # Len(json)
       /\ OnlyEarlierFields

\* C12 as amended: the position is the offset right after the value's opening
\* quote; it is never 0, and it is the end of the text only when the text ends
\* with that opening quote.  The field gets no value.
C12_UnterminatedAtStart ==
    AnchoredUnterminated
    => /\ AtValueStart(err.at)
       /\ err.at # 0
       /\ err.at = Len(json) => json[Len(json)] = QUOTE
       /\ OnlyEarlierFields

\* A last field whose closing quote a backslash escapes: the reader ran to the
\* end of a text that goes on well after the value's start.
C12_Witness ==
    /\ AnchoredUnterminated
    /\ input.family = "value"
    /\ FocusFld = Len(input.schema)
    /\ FocusRaw = <<BSLASH>>
    /\ AtValueStart(err.at)
    /\ err.at < Len(json) - 3
    /\ Len(items) = FocusRec - 1

\* The messages of the ParseErrors the parser constructs.
Messages ==
    {"Expected char not found", "Expected char", "Unterminated string",
     "Unterminated key", "Expected key"}

\* C13: whatever the text and the schema, a failure of the parse is a
\* ParseError with one of the parser's messages and an integer position
\* between 0 and the length of the text, both included.
C13_ErrorSurface ==
    /\ Failed => /\ err.msg \in Messages
                 /\ err.at \in Int
                 /\ 0 <= err.at
                 /\ err.at <= Len(json)
    /\ ~Failed => err = NoError

\* A text cut inside a record: the closing brace is looked for up to the end
\* of the text, and the position is the length of the text.
C13_Witness ==
    /\ Failed
    /\ input.family = "truncated"
    /\ err.msg = "Expected char not found"
    /\ err.at = Len(json)
    /\ Len(json) > 0
    /\ item # <<>>

\* The offsets of the quote characters of the text.
QuoteOffsets(s) == {q \in 0..(Len(s) - 1) : s[q + 1] = QUOTE}

\* Started at any quote of the text, a string reader that returns has passed
\* at least the two quotes of the value.
ReadersAdvance(s, schema) ==
    \A q \in QuoteOffsets(s) :
        /\ LET r == ReadSimpleString(s, q) IN r.ok => r.pos >= q + 2
        /\ \A f \in 1..Len(schema) :
              LET r == ReadAnchoredString(s, q, NextFieldOf(schema, f))
              IN  r.ok => r.pos >= q + 2

\* A step of the parse never moves the cursor back, and every step that
\* begins the parse or reads a brace or a field moves it forward unless it
\* throws.
CursorAdvances ==
    /\ pos' >= pos
    /\ (pc \in {"parse", "object", "field", "close"} /\ pc' # "failed")
           => pos' > pos

\* How far the parse is from its end: the characters not yet passed, then
\* what is left to do before the cursor moves again.
Rank(p) ==
    CASE p = "pushed" -> 4
      [] p = "loop" -> 3
      [] p = "object" -> 2
      [] p \in {"parse", "field", "close"} -> 1
      [] p \in {"returned", "failed"} -> 0

Variant == (Len(json) + 1 - pos) * 5 + Rank(pc)

\* The parse can take a step wherever it has neither returned nor failed.
CanStep ==
    /\ pc \in {"parse", "loop", "object", "field", "close", "pushed",
                "returned", "failed"}
    /\ pc = "field" => fi \in 1..Len(fields)
    /\ pos \in 0..Len(json)

\* C14: for every text and every schema, the empty one and one with a
\* repeated name included, the parse returns or raises: it can take a step
\* until it has, and every step of it lowers a natural number; the cursor
\* strictly advances on every iteration of the loop over the records and of
\* the loop over the fields, and the string readers pass at least two
\* characters whenever they return.
C14_Terminates ==
    /\ [][pass' = pass => (CursorAdvances /\ Variant' < Variant /\ Variant' >= 0)]_vars
    /\ [](CanStep /\ Variant >= 0)
    /\ []((pc = "parse" /\ pass = 1) => ReadersAdvance(json, fields))

\* Two records were read under a schema with a repeated name, and the parse
\* returned.
C14_Witness ==
    /\ pass = 1
    /\ Returned
    /\ fields = TitleTitle
    /\ Len(items) = 2
    /\ ends[1] < ends[2]
    /\ ends[2] <= pos

\* The Parser made of the variables of the parse of one text.
ThisParser ==
    [json |-> json, fields |-> fields, pos |-> pos, pc |-> pc, items |-> items,
     item |-> item, fi |-> fi, err |-> err]

\* StepOf is the step of the parse.
StepAgrees == [][pass' = pass => ThisParser' = StepOf(ThisParser)]_vars

\* The call run alone, from the Parser st on to its end.
RECURSIVE RunAlone(_)
RunAlone(st) == IF Done(st) THEN st ELSE RunAlone(StepOf(st))

\* What a call gives its caller: the records, or the error.
Outcome(st) ==
    [returned |-> st.pc = "returned",
     items |-> IF st.pc = "returned" THEN st.items ELSE <<>>,
     err |-> st.err]

SameArgs(a, b) == a.json = b.json /\ a.fields = b.fields

C16_EmptySchemaFails ==
    (pass = 1 /\ Len(fields) = 0 /\ Len(input.recs) > 0) => ~Returned

Exited == run.pc = "exited"

AllWs(s, a, b) == \A k \in a..(b - 1) : IsWs(CharAt(s, k))

\* The text from offset j on is: whitespace, then the characters of lit.
WsThen(s, j, lit) ==
    \E n \in 0..MaxWs :
        AllWs(s, j, j + n) /\ Slice(s, j + n, j + n + Len(lit)) = lit

\* The text after the quote at q is: whitespace, a comma, whitespace, a
\* quote, the characters of name, a quote, whitespace, a colon.
AnchorFollows(s, q, name) ==
    \E a \in 0..MaxWs, b \in 0..MaxWs :
        /\ AllWs(s, q + 1, q + 1 + a)
        /\ CharAt(s, q + 1 + a) = ","
        /\ AllWs(s, q + 2 + a, q + 2 + a + b)
        /\ Slice(s, q + 2 + a + b, q + 4 + a + b + Len(name)) = Quoted(name)
        /\ Len(s) >= q + 4 + a + b + Len(name)
        /\ WsThen(s, q + 4 + a + b + Len(name), <<":">>)

\* The backslashes that stand right before offset q, not going back past from.
RECURSIVE BackslashesBefore(_, _, _)
BackslashesBefore(s, from, q) ==
    IF q > from /\ CharAt(s, q - 1) = BSLASH
    THEN 1 + BackslashesBefore(s, from, q - 1)
    ELSE 0

\* The quotes of s from offset from on that no backslash escapes: those with
\* an even number of backslashes right before them.
Candidates(s, from) ==
    {q \in QuoteOffsets(s) : q >= from /\ BackslashesBefore(s, from, q) % 2 = 0}

\* The parse is about to read the string field fi, whose key is there and
\* whose value opens with a quote.
AtStringField ==
    /\ pc = "field"
    /\ pass = 1
    /\ fields[fi].type = "string"
    /\ ExpectKey(json, pos, fields[fi].name).ok
    /\ CharAt(json, SkipWs(json, ExpectKey(json, pos, fields[fi].name).pos)) = QUOTE

\* The offset of the opening quote of the value of field fi.
OpeningQuote == SkipWs(json, ExpectKey(json, pos, fields[fi].name).pos)

\* The reader's answer r for the value that opens at the quote p, when the
\* quotes that end it are those of the set closers: it ends the value at the
\* first candidate quote among them, keeps what stands before it, every
\* other quote included, and fails when there is none.
EndsAtFirst(s, p, r, closers) ==
    LET cands == Candidates(s, p + 1)
    IN  /\ r.ok <=> (cands \cap closers # {})
        /\ r.ok => /\ r.pos - 1 \in cands \cap closers
                   /\ \A c \in cands \cap closers : c >= r.pos - 1
                   /\ ValidEscapes(Slice(s, p + 1, r.pos - 1), 0)
                         => r.val = Decoded(Slice(s, p + 1, r.pos - 1))

\* C18: for a string field followed by the field N, a quote is judged the
\* terminator exactly when what follows it is whitespace, a comma,
\* whitespace, a quote, the name of N, a quote, whitespace and a colon; the
\* reader ends the value at the first unescaped quote so followed and keeps
\* every other quote, one followed by a brace or by the end of the text too,
\* as a character of the value.
C18_NextFieldAnchor ==
    /\ (pc = "parse" /\ pass = 1)
          => \A q \in QuoteOffsets(json) : \A f \in 2..Len(fields) :
                IsClosingQuote(json, q, Field(fields[f].name))
                    <=> AnchorFollows(json, q, fields[f].name)
    /\ (AtStringField /\ fi < Len(fields))
          => EndsAtFirst(json, OpeningQuote,
                         ReadAnchoredString(json, OpeningQuote,
                                            NextFieldOf(fields, fi)),
                         {q \in QuoteOffsets(json) :
                             AnchorFollows(json, q, fields[fi + 1].name)})

\* A title that holds a quote followed by a brace, before url: the quote and
\* the brace are in the value.
C18_Witness ==
    /\ pass = 1
    /\ Returned
    /\ FocusIsString
    /\ input.schema = TitleUrl
    /\ FocusFld = 1
    /\ FocusRaw = BraceInside
    /\ input.ws = <<" ">>
    /\ items[FocusRec][Title] = BraceInside

\* The text after the quote at q is whitespace and then: a closing brace, or
\* a comma, whitespace and a closing brace, or nothing more, or a closing
\* bracket.
RecordEndFollows(s, q) ==
    \E a \in 0..MaxWs :
        /\ AllWs(s, q + 1, q + 1 + a)
        /\ q + 1 + a <= Len(s)
        /\ \/ q + 1 + a = Len(s)
           \/ CharAt(s, q + 1 + a) \in {"}", "]"}
           \/ /\ CharAt(s, q + 1 + a) = ","
              /\ WsThen(s, q + 2 + a, <<"}">>)

Requoted(s, a, b) ==
    LET cands == Candidates(s, a)
    IN  JoinRange([k \in 1..(b - a) |->
                      IF (a + k - 1) \in cands THEN <<BSLASH, QUOTE>>
                      ELSE <<s[a + k]>>],
                  <<>>, 1, b - a)

\* The least member of a non-empty set of offsets.
Least(S) == CHOOSE q \in S : \A c \in S : q <= c

\* readSimpleString from the quote at p ends the string at the first quote
\* that no backslash escapes and decodes the characters before it as they
\* stand; with no such quote it fails.
SimpleReadsUnits(s, p) ==
    LET r == ReadSimpleString(s, p)
        cands == Candidates(s, p + 1)
    IN  IF cands = {} THEN r = Err("Unterminated string", p + 1)
        ELSE r = Ok(Unescape(Slice(s, p + 1, Least(cands))), Least(cands) + 1)

\* readAnchoredString from the quote at p: the quote it ends the string at has
\* an even number of backslashes before it, the value is the decoding of the
\* characters before that quote, and a failure is "Unterminated string".
AnchoredReadsUnits(s, p, nextField) ==
    LET r == ReadAnchoredString(s, p, nextField)
    IN  IF r.ok
        THEN /\ r.pos - 1 \in Candidates(s, p + 1)
             /\ r.val = Unescape(Requoted(s, p + 1, r.pos - 1))
        ELSE r = Err("Unterminated string", p + 1)

\* C20: in both string readers a backslash and the character after it are
\* one unit, kept as it stands until the value is decoded, so the readers
\* never end a string at a quote that has an odd number of backslashes right
\* before it, whatever follows that quote; and a text that ends with a
\* backslash inside a string fails with "Unterminated string".
C20_BackslashUnits ==
    /\ (pc = "parse" /\ pass = 1)
          => \A p \in QuoteOffsets(json) : SimpleReadsUnits(json, p)
    /\ AtStringField
          => AnchoredReadsUnits(json, OpeningQuote, NextFieldOf(fields, fi))
    /\ (pass = 1 /\ (Returned \/ Failed) /\ Len(json) > 0
          /\ json[Len(json)] = BSLASH)
          => (Failed /\ err.msg = "Unterminated string")

\* A title that is one backslash, before url: the quote after the backslash
\* is followed by the whole anchor of url, and the parse went past it.
C20_Witness ==
    /\ pass = 1
    /\ Returned \/ Failed
    /\ FocusIsString
    /\ input.schema = TitleUrl
    /\ FocusFld = 1
    /\ FocusRaw = <<BSLASH>>
    /\ \E q \in QuoteOffsets(json) :
          /\ BackslashesBefore(json, 0, q) = 1
          /\ AnchorFollows(json, q, Url)
          /\ pos > q + 1

\* The unescaped quotes after the opening quote at p that satisfy the anchor.
Terminators(s, p, nextField) ==
    {q \in Candidates(s, p + 1) : IsClosingQuote(s, q, nextField)}

\* The reader, from the opening quote at p, ends at the leftmost of them:
\* the value is the decoding of the characters between the two quotes and
\* the cursor is one past the closing quote; it fails when there is none.
StopsAtLeftmost(s, p, nextField) ==
    LET r == ReadAnchoredString(s, p, nextField)
        ts == Terminators(s, p, nextField)
    IN  IF ts = {} THEN ~r.ok
        ELSE r = Ok(Unescape(Slice(s, p + 1, Least(ts))), Least(ts) + 1)

\* The offset in raw of its first bare quote that the anchor of name follows.
FirstAnchor(raw, name) ==
    Least({q \in BareQuotes(raw, 0) : IsPrefix(NextFieldAnchor(name), After(raw, q))})

\* The changed value holds the anchor of the field after it.
AnchorInValue ==
    /\ FocusIsString
    /\ FocusFld < Len(input.schema)
    /\ ValidEscapes(FocusRaw, 0)
    /\ FormsNextFieldAnchor(FocusRaw, input.schema[FocusFld + 1].name)

\* C21: the anchored reader stops at the leftmost unescaped quote that
\* satisfies the anchor, returns the decoding of exactly the characters
\* between the opening quote and that quote and leaves the cursor one past
\* it; so a value that holds the anchor of the next field is cut at the first
\* quote the anchor follows, and the read raises nothing.
C21_LeftmostAnchorWins ==
    /\ AtStringField => StopsAtLeftmost(json, OpeningQuote, NextFieldOf(fields, fi))
    /\ (AtStringField /\ AnchorInValue /\ fi = FocusFld /\ Len(items) = FocusRec - 1)
          => LET cut == FirstAnchor(FocusRaw, input.schema[FocusFld + 1].name)
             IN  ReadAnchoredString(json, OpeningQuote, NextFieldOf(fields, fi))
                    = Ok(Decoded(SubSeq(FocusRaw, 1, cut)), OpeningQuote + cut + 2)
    /\ (pass = 1 /\ AnchorInValue /\ Len(items) >= FocusRec)
          => items[FocusRec][FocusName]
                = Decoded(SubSeq(FocusRaw, 1,
                                 FirstAnchor(FocusRaw, input.schema[FocusFld + 1].name)))

\* A title that holds the anchor of url: the parse returned, and the title
\* is what stands before the anchor.
C21_Witness ==
    /\ pass = 1
    /\ Returned
    /\ AnchorInValue
    /\ FocusRaw = AnchorInside
    /\ Len(items) = Len(input.recs)
    /\ items[FocusRec][Title] = <<"x">>
    /\ items[FocusRec][Url] # Decoded(input.recs[FocusRec][2][1])

\* Where an operation that began at p left off: the cursor it gives, or the
\* position of the error it raises, is not before p.
NotBefore(r, p) == IF r.ok THEN r.pos >= p ELSE r.at >= p

\* Each operation of the parser, begun at the offset p of s, leaves the
\* cursor at p or after it.
OperationsForward(s, schema, p) ==
    /\ Advance(p) >= p
    /\ SkipWs(s, p) >= p
    /\ SkipWsFrom(s, p) >= p
    /\ \A ch \in {"{", "}", "[", QUOTE} :
          /\ NotBefore(SkipTo(s, p, ch), p)
          /\ NotBefore(Expect(s, p, ch), p)
    /\ TryConsume(s, p, ",") >= p
    /\ Separator(s, p) >= p
    /\ NotBefore(ExpectKey(s, p, Items), p)
    /\ NotBefore(ReadSimpleString(s, p), p)
    /\ NotBefore(ReadStringArray(s, p), p)
    /\ NotBefore(ReadAnchoredString(s, p, NoField), p)
    /\ \A f \in 1..Len(schema) :
          /\ NotBefore(ExpectKey(s, p, schema[f].name), p)
          /\ NotBefore(ReadAnchoredString(s, p, Field(schema[f].name)), p)

\* The operations that read field i from the offset p, one after the other:
\* none of them leaves the cursor before where it found it.
FieldForward(s, p, schema, i) ==
    LET k == ExpectKey(s, p, schema[i].name)
        a == SkipWs(s, k.pos)
        v == ReadValue(s, a, schema, i)
        b == SkipWs(s, v.pos)
        c == TryConsume(s, b, ",")
    IN  /\ NotBefore(k, p)
        /\ k.ok => (a >= k.pos /\ NotBefore(v, a))
        /\ (k.ok /\ v.ok) => (b >= v.pos /\ c >= b /\ SkipWs(s, c) >= c)

\* C22: the cursor never decreases during a parse: no step of the parse
\* lowers it, and each operation (advance, skipWs, skipTo, tryConsume,
\* expectKey, the string and array readers), begun where the parse stands
\* or where the operation before it left off, leaves it equal or greater.
C22_CursorMonotone ==
    /\ [][pass' = pass => pos' >= pos]_vars
    /\ [](pass = 1 => OperationsForward(json, fields, pos))
    /\ []((pass = 1 /\ pc = "field") => FieldForward(json, pos, fields, fi))

\* A parse that read two records and returned: the cursor passed the end of
\* the first, then the end of the second, and stands at the closing bracket.
C22_Witness ==
    /\ pass = 1
    /\ Returned
    /\ input.family = "layout"
    /\ input.ws = <<" ">>
    /\ input.comma
    /\ Len(ends) = 2
    /\ 0 < ends[1]
    /\ ends[1] < ends[2]
    /\ ends[2] < pos
    /\ CharAt(json, pos) = "]"

\* The characters the parser tests for with expect and tryConsume.
Delimiters == {"{", "}", "[", "]", ",", ":", QUOTE}

\* The lookahead at the quote q leaves the cursor at q, whatever it answers.
LookaheadKeepsCursor(s, q, nextField) ==
    CallIsClosingQuote(s, q, nextField).pos = q

\* tryConsume(ch) at p: one further when the character at p is ch, p otherwise.
TryConsumeFrame(s, p, ch) ==
    TryConsume(s, p, ch) = (IF p < Len(s) /\ s[p + 1] = ch THEN p + 1 ELSE p)

\* expect(ch) at p: passes exactly when the character at p is ch, and the
\* cursor (or the position of the error) is p.
ExpectFrame(s, p, ch) ==
    LET e == Expect(s, p, ch)
    IN  /\ e.ok <=> (p < Len(s) /\ s[p + 1] = ch)
        /\ e.pos = p
        /\ e.at = p

\* What the reader shows of the lookahead: it ends one past the quote the
\* lookahead accepted, and the value holds every character before that
\* quote, those after each quote the lookahead rejected too.
ReaderShowsFrame(s, p, nextField) ==
    LET r == ReadAnchoredString(s, p, nextField)
    IN  r.ok => /\ CharAt(s, r.pos - 1) = QUOTE
                /\ IsClosingQuote(s, r.pos - 1, nextField)
                /\ r.val = Unescape(Slice(s, p + 1, r.pos - 1))

\* C23: lookahead and checks do not move the cursor: isClosingQuote leaves
\* it where it was whether it answers true or false, tryConsume(ch) leaves it
\* when the current character differs from ch and advances it by exactly
\* one when it matches, and expect(ch) never changes it.
C23_LookaheadFrame ==
    /\ (pc = "parse" /\ pass = 1)
          => \A q \in QuoteOffsets(json) :
                /\ LookaheadKeepsCursor(json, q, NoField)
                /\ \A f \in 1..Len(fields) :
                      LookaheadKeepsCursor(json, q, Field(fields[f].name))
    /\ pass = 1
          => \A ch \in Delimiters :
                TryConsumeFrame(json, pos, ch) /\ ExpectFrame(json, pos, ch)
    /\ AtStringField
          => ReaderShowsFrame(json, OpeningQuote, NextFieldOf(fields, fi))

\* A url, last of three fields, that holds two quotes: the lookahead said no
\* twice and then yes, a comma was consumed after each of the fields before
\* it and none after it.
C23_Witness ==
    /\ pass = 1
    /\ Returned
    /\ FocusIsString
    /\ input.schema = TitleTagsUrl
    /\ FocusFld = 3
    /\ FocusRaw = SayHello
    /\ input.ws = <<>>
    /\ Len(items) = Len(input.recs)
    /\ items[FocusRec][Url] = SayHello

\* The codec as stated: the escapes of the standard set and u with four
\* hexadecimal digits are decoded, any other character after a backslash is
\* passed through without the backslash, a backslash that ends the text stays.
RECURSIVE LenientDecode(_, _)
LenientDecode(raw, i) ==
    IF i >= Len(raw) THEN <<>>
    ELSE IF raw[i + 1] # BSLASH THEN <<raw[i + 1]>> \o LenientDecode(raw, i + 1)
    ELSE IF i + 1 >= Len(raw) THEN <<BSLASH>>
    ELSE IF raw[i + 2] = "u" /\ \A k \in 2..5 : IsHex(CharAt(raw, i + k))
    THEN <<FromCharCode(HexVal(raw[i + 3]) * 4096 + HexVal(raw[i + 4]) * 256
                        + HexVal(raw[i + 5]) * 16 + HexVal(raw[i + 6]))>>
         \o LenientDecode(raw, i + 6)
    ELSE <<CASE raw[i + 2] = "b" -> BACKSPACE
             [] raw[i + 2] = "f" -> "\f"
             [] raw[i + 2] = "n" -> "\n"
             [] raw[i + 2] = "r" -> "\r"
             [] raw[i + 2] = "t" -> "\t"
             [] OTHER -> raw[i + 2]>>
         \o LenientDecode(raw, i + 2)

\* The characters of a text.
CharsOf(x) == {x[k] : k \in 1..Len(x)}

\* C24: the value a string field is given is the lenient decoding of the
\* characters between its quotes: the standard escapes and u with four
\* hexadecimal digits decoded, any other escaped character (a u without
\* four hexadecimal digits too) passed through unchanged; and, outside the
\* escapes that are decoded, it holds no character the text did not hold.
C24_LenientCodec ==
    AtStringField
        => LET p == OpeningQuote
               r == ReadAnchoredString(json, p, NextFieldOf(fields, fi))
           IN  r.ok => /\ r.val = LenientDecode(Slice(json, p + 1, r.pos - 1), 0)
                       /\ ValidEscapes(Slice(json, p + 1, r.pos - 1), 0)
                            \/ CharsOf(r.val) \subseteq CharsOf(json)

\* The text stops before the closing bracket of the items array.
ItemsArrayUnclosed ==
    /\ input.family = "truncated"
    /\ input.defect.at <= Len(FullText(input)) - 2

\* C25: a text that ends before the closing bracket of the items array,
\* right after the opening bracket or after a complete record for instance,
\* makes the parse raise: it does not return the records read so far.
C25_UnclosedArrayRaises ==
    (pass = 1 /\ ItemsArrayUnclosed) => ~Returned

\* The changed value is the first element of a list.
FocusIsList ==
    /\ input.family = "value"
    /\ input.schema[FocusFld].type = "string[]"

\* The parse is about to read the list field fi, whose key is there and
\* whose value opens with a bracket.
AtListField ==
    /\ pc = "field"
    /\ pass = 1
    /\ fields[fi].type = "string[]"
    /\ ExpectKey(json, pos, fields[fi].name).ok
    /\ CharAt(json, SkipWs(json, ExpectKey(json, pos, fields[fi].name).pos)) = "["

\* The offset of the first element of the list of field fi.
FirstElement ==
    SkipWs(json, SkipWs(json, ExpectKey(json, pos, fields[fi].name).pos) + 1)

\* The raw text of an element up to its first bare quote.
CutAtQuote(raw) == SubSeq(raw, 1, Least(BareQuotes(raw, 0)))

\* The changed element holds a bare quote, and nothing else wrong.
EmbeddedQuoteElement ==
    /\ FocusIsList
    /\ HasBareQuote(FocusRaw)
    /\ ValidEscapes(FocusRaw, 0)

\* C26: the elements of a list are read without anchoring: an element ends
\* at its first quote that no backslash escapes, whatever follows it.  An
\* element that holds a bare quote is cut at that quote, and the parse then
\* raises or gives the record a list that is not the one written (its
\* first element is the cut one); a list whose elements hold no bare quote
\* and only valid escapes is decoded as strict JSON decodes it.
C26_ListElementsUnanchored ==
    /\ (AtListField /\ CharAt(json, FirstElement) = QUOTE)
          => LET r == ReadSimpleString(json, FirstElement)
                 cands == Candidates(json, FirstElement + 1)
             IN  IF cands = {} THEN ~r.ok
                 ELSE r = Ok(Unescape(Slice(json, FirstElement + 1, Least(cands))),
                             Least(cands) + 1)
    /\ (AtListField /\ EmbeddedQuoteElement /\ fi = FocusFld
          /\ Len(items) = FocusRec - 1)
          => ReadSimpleString(json, FirstElement)
                = Ok(Decoded(CutAtQuote(FocusRaw)),
                     FirstElement + Len(CutAtQuote(FocusRaw)) + 2)
    /\ (pass = 1 /\ EmbeddedQuoteElement /\ Len(items) >= FocusRec)
          => /\ items[FocusRec][FocusName][1] = Decoded(CutAtQuote(FocusRaw))
             /\ items[FocusRec][FocusName]
                   # StrictValue("string[]", input.recs[FocusRec][FocusFld])
    /\ (pass = 1 /\ FocusIsList /\ ~HasBareQuote(FocusRaw)
          /\ ValidEscapes(FocusRaw, 0))
          => /\ ~Failed
             /\ Len(items) >= FocusRec
                  => items[FocusRec][FocusName]
                        = StrictValue("string[]", input.recs[FocusRec][FocusFld])

\* A first element that holds quote, comma, quote: the parse returned, and
\* the list has three elements where two were written.
C26_Witness ==
    /\ pass = 1
    /\ Returned
    /\ EmbeddedQuoteElement
    /\ FocusRaw = SplitsInTwo
    /\ Len(items) = Len(input.recs)
    /\ items[FocusRec][Tags] = <<<<"a">>, <<"b">>, <<"k">>>>

\* The characters from offset a to b - 1 are space, tab, line feed or
\* carriage return.
OnlyJsonWs(s, a, b) == \A k \in a..(b - 1) : s[k + 1] \in JsonWs

\* C27: skipWs and skipWsFrom, begun at any offset of the text, pass over
\* space, tab, line feed and carriage return only, and stop at the first
\* character that is none of these.
C27_JsonWhitespaceOnly ==
    (pc = "parse" /\ pass = 1)
        => \A p \in 0..Len(json) :
              /\ OnlyJsonWs(json, p, SkipWs(json, p))
              /\ OnlyJsonWs(json, p, SkipWsFrom(json, p))
              /\ CharAt(json, SkipWs(json, p)) \notin JsonWs

\* The errors isRetryableError answers true for: rate limit, server error,
\* status 529, and a connection error that is no APIError.
Retried ==
    {ApiFailure("RateLimitError", TRUE, 429),
     ApiFailure("InternalServerError", TRUE, 500),
     ApiFailure("APIError", TRUE, 529),
     ApiFailure("APIConnectionError", FALSE, 0)}

\* sendMessage was called with maxRetries at least 1 and did not go through
\* handleToolUse.
PlainCall == client.maxRetries >= 1 /\ ~client.toolUsed

\* The delays slept so far: 1000 ms after the first failed attempt, twice
\* the delay before after each further one.
BackoffDelays(n) == [k \in 1..n |-> 1000 * Pow2(k - 1)]

\* C28: with maxRetries = N >= 1 and no tool use, sendMessage makes at most
\* N requests; it returns at the first one that succeeds; it makes another
\* request only after a retryable error met while fewer than N attempts
\* were made, having waited 1000 * 2^(k-1) ms after failed attempt k; it
\* throws the wrapped error right after the first error that is not
\* retryable, and the wrapped last error after the N-th failed attempt.
C28_BoundedRetries ==
    PlainCall =>
        LET k == Len(client.failures)
            N == client.maxRetries
        IN  /\ client.requests <= N
            /\ client.attempt = k
            /\ client.requests = (IF client.pc \in {"call", "returned"} THEN k + 1 ELSE k)
            /\ \A j \in 1..(k - 1) : client.failures[j] \in Retried /\ j < N
            /\ client.pc \in {"loop", "sleep"}
                  => (k = 0 \/ (client.failures[k] \in Retried /\ k < N))
            /\ client.slept
                  = BackoffDelays(IF client.pc = "thrown" THEN k - 1 ELSE k)
            /\ client.pc = "thrown"
                  => /\ k >= 1
                     /\ client.failures[k] \notin Retried \/ k = N
                     /\ client.thrown = WrapError(client.failures[k])
                     /\ client.thrown.code
                           \in {"AUTHENTICATION_ERROR", "RATE_LIMIT_ERROR",
                                "BAD_REQUEST_ERROR", "CONNECTION_ERROR",
                                "SERVER_ERROR", "API_ERROR", "UNKNOWN_ERROR"}

\* Three attempts met the rate limit: the call slept 1000 ms, then 2000 ms,
\* and threw after the third.
C28_Witness ==
    /\ PlainCall
    /\ client.maxRetries = 3
    /\ client.pc = "thrown"
    /\ client.requests = 3
    /\ client.slept = <<1000, 2000>>
    /\ client.thrown.code = "RATE_LIMIT_ERROR"

\* The place of a source in the fixed order.
Place(s) == CHOOSE i \in 1..4 : <<"hackernews", "reddit", "lobsters", "devto">>[i] = s

\* The sources that succeeded and those that failed.
Good == {s \in Sources : orch.results[s].success}
Bad == {s \in Sources : orch.results[s].settled /\ ~orch.results[s].success}

\* A sequence names each element of S once and nothing else.
Lists(q, S) == Len(q) = Cardinality(S) /\ {q[i] : i \in 1..Len(q)} = S

\* The items are those of the sources that succeeded, each once, a source
\* with an earlier place before one with a later place, and the items of
\* one source in the order its scraper gave them.
InFixedOrder(its) ==
    /\ \A i \in 1..Len(its) :
          /\ its[i].source \in Good
          /\ its[i] = orch.results[its[i].source].items[its[i].n]
    /\ \A s \in Good : \A k \in 1..Len(orch.results[s].items) :
          \E i \in 1..Len(its) : its[i] = orch.results[s].items[k]
    /\ \A i \in 1..Len(its) : \A j \in (i + 1)..Len(its) :
          \/ Place(its[i].source) < Place(its[j].source)
          \/ its[i].source = its[j].source /\ its[i].n < its[j].n

\* C29: whatever the order in which the four scrapers complete or fail,
\* scrapeAllSources gives nothing before all four have settled, throws
\* ALL_SOURCES_FAILED exactly when all four failed, and otherwise returns
\* the items of the sources that succeeded, concatenated in the order
\* hackernews, reddit, lobsters, devto, with successfulSources and
\* failedSources sharing out the four names and totalItems the count of
\* the items.
C29_ScrapeAggregation ==
    /\ orch.pc = "waiting"
          => (orch.items = <<>> /\ orch.code = "" /\ orch.successfulSources = <<>>)
    /\ orch.pc \in {"returned", "thrown"}
          => /\ Lists(orch.order, Sources)
             /\ Good \cup Bad = Sources
             /\ orch.pc = "thrown" <=> Bad = Sources
             /\ orch.pc = "thrown" => orch.code = "ALL_SOURCES_FAILED"
             /\ Lists(orch.successfulSources, Good)
             /\ Lists(orch.failedSources, Bad)
    /\ orch.pc = "returned"
          => /\ InFixedOrder(orch.items)
             /\ orch.totalItems = Len(orch.items)
             /\ orch.code = ""

\* The scrapers settled in the reverse of the fixed order, hackernews last
\* and failing: the items are those of reddit, then lobsters, then devto.
C29_Witness ==
    /\ orch.pc = "returned"
    /\ orch.order = <<"devto", "lobsters", "reddit", "hackernews">>
    /\ orch.failedSources = <<"hackernews">>
    /\ orch.successfulSources = <<"reddit", "lobsters", "devto">>
    /\ orch.totalItems = 3
    /\ orch.items = <<[source |-> "reddit", n |-> 1], [source |-> "lobsters", n |-> 1],
                      [source |-> "devto", n |-> 1]>>

\* The serialized digest is within the limit of the call.
Fits(d) == Len(SerializeDigest(d)) <= digest.maxBytes

\* The digest the call was given, cut to its first n items.
FirstItems(n) == CreateDigest(SubSeq(digest.given.items, 1, n))

\* C30: trimToFitSize, given a digest made by createDigest, returns a
\* digest whose items are a prefix of the given ones and whose item_count
\* is the number of its items; each step removes the last item and only
\* that, and only while the serialized digest exceeds maxBytes and more
\* than minItems items remain; a digest that fits is returned as given;
\* never fewer items are left than the smaller of minItems and the number
\* of items given.
C30_TrimToFit ==
    /\ [](LET cur == digest.currentDigest
              n == Len(cur.items)
          IN  /\ cur = FirstItems(n)
              /\ n <= Len(digest.given.items)
              /\ cur.item_count = n
              /\ Fits(digest.given) => cur = digest.given
              /\ n >= Min(digest.minItems, Len(digest.given.items))
              /\ \A m \in (n + 1)..Len(digest.given.items) :
                    ~Fits(FirstItems(m)) /\ m > digest.minItems
              /\ digest.pc = "returned"
                    => /\ Fits(cur) \/ n <= digest.minItems
                       /\ digest.warned <=> ~Fits(cur))
    /\ [][digest'.currentDigest # digest.currentDigest
            => /\ digest'.currentDigest.items
                    = SubSeq(digest.currentDigest.items, 1,
                             Len(digest.currentDigest.items) - 1)
               /\ ~Fits(digest.currentDigest)
               /\ Len(digest.currentDigest.items) > digest.minItems]_vars

\* Three items were given and one was to be kept at least: the last was
\* removed, the two left fit, and the call returned them without a warning.
C30_Witness ==
    /\ digest.pc = "returned"
    /\ Len(digest.given.items) = 3
    /\ digest.minItems = 1
    /\ Len(digest.currentDigest.items) = 2
    /\ digest.currentDigest.item_count = 2
    /\ ~Fits(digest.given)
    /\ Fits(digest.currentDigest)
    /\ ~digest.warned

====
